---- MODULE Spec2Model ----
(***************************************************************************)
(* Verification model of collegeaibot: the profile-patch engine, the       *)
(* intake / scholarships / scholarship-prep turn protocols and the         *)
(* orchestration graph.                                                    *)
(*                                                                         *)
(* Representation of Python values.  Every JSON value is a tagged record,  *)
(* so that values of different Python types are comparable:                *)
(*   None -> Null, str -> Str(s), number -> Num(n), bool -> Bool(b),       *)
(*   list -> List(l), dict -> Dict(d) with d a function from keys.         *)
(* A Python string is a sequence of atoms.  An atom is the dot ".", the    *)
(* blank " ", or a chunk of characters holding neither (a name such as     *)
(* "us_only", a word such as "Skip").  Two chunks are never adjacent, so   *)
(* a string has one representation.  Dict keys are strings.                *)
(***************************************************************************)
EXTENDS Integers, Sequences, FiniteSets, TLC

VARIABLES
    \* --- PatchOp engine runs (SpecPatch) ---
    pcPatch,        \* "input" | "applied" | "reapplied", "merge" | "merged",
                    \* "classify" | "classified", "candidate" | "normalised",
                    \* "text" | "parsed" | "reparsed", "stores" | "context",
                    \* "file" | "read", "saves", "combine" | "combined", or
                    \* "idle"
    dst0,           \* the document as it was before apply_patch_ops
    dst,            \* the document apply_patch_ops mutates in place
    ops,            \* the op list passed to apply_patch_ops
    objs,           \* objs[i]: the mapping that is the value of ops[i], as it
                    \* is now (ops keeps the list as it was built)
    merge_patch,    \* the patch passed to deep_merge
    probe,          \* the value passed to the answered predicates
    answered,       \* what each copy of the predicate returned
    cand,           \* the candidate or the date text a deadline run starts
                    \* from; the store files, or the file, a store run reads;
                    \* the store file the clients of SpecSaves save to
    cand_out,       \* what the run has made of it so far; in SpecSaves, where
                    \* each client's save is and what it holds in memory
    \* --- agent sessions (SpecIntake, SpecSch, SpecAgents) ---
    agent,          \* "intake" | "scholarships" | "prep" | "none"
    completion_mode,\* IntakeConfig.completion_mode: "deep" | "core"
    pc,             \* position of the caller loop and of the turn in progress
    heap,           \* the profile objects: heap[1] is the object the caller
                    \* holds and passes in, heap[2] the turn's working object
    updated_profile,\* the object next_turn works on and returns: 1 or 2
    profile_in,     \* the content of the caller's object when the turn began
    last_user_answer,
    last_question_id,
    turn,           \* what the turn in progress has computed and done
    answered_ids,   \* history: the question ids answered in completed turns
    \* --- the pipeline of build_college_graph (SpecGraph) and its nodes ---
    node,           \* the node the graph is at, "END", "crashed" or "none"
    state,          \* the GraphState passed from node to node
    disk,           \* the client's entry in each store file (Null: none)
    api_key,        \* whether OPENAI_API_KEY is set in the environment
    node_profile,   \* the profile a node patches and saves: scholarships_profile
                    \* in scholarships_node, intake_profile in scholarship_prep_node
    loop_i,         \* iterations of the node's "for _ in range(12)" begun; in
                    \* SpecQuestioning, history: the answers intake has taken
    after_error,    \* history: what ran while state.error was already set
    printed         \* what run_pipeline printed when graph.invoke returned

patchVars == <<pcPatch, dst0, dst, ops, objs, merge_patch, probe, answered,
               cand, cand_out>>
agentVars == <<agent, completion_mode, pc, heap, updated_profile, profile_in,
               last_user_answer, last_question_id, turn, answered_ids>>
graphVars == <<node, state, disk, api_key, node_profile, loop_i, after_error,
               printed>>

-----------------------------------------------------------------------------
(* Values                                                                  *)

Null == [t |-> "null"]
Str(s) == [t |-> "str", s |-> s]
Num(n) == [t |-> "num", n |-> n]
Bool(b) == [t |-> "bool", b |-> b]
List(l) == [t |-> "list", l |-> l]
Dict(d) == [t |-> "dict", d |-> d]

IsStr(v) == v.t = "str"
IsList(v) == v.t = "list"
IsDict(v) == v.t = "dict"

EmptyMap == [k \in {} |-> Null]

\* How a call ends: with a value, or with an exception leaving it.
Returned(v) == [t |-> "returned", v |-> v]
Raised(e) == [t |-> "raised", e |-> e]

\* dict.get(key): the value, or None when the key is absent.
DictGet(d, key) == IF key \in DOMAIN d THEN d[key] ELSE Null

\* d[key] = v on a Python dict.
DictPut(d, key, v) == [k \in (DOMAIN d) \cup {key} |-> IF k = key THEN v ELSE d[k]]

-----------------------------------------------------------------------------
(* Strings                                                                 *)

\* str.split("."): the segments between dots, empty segments included.
RECURSIVE Split(_)
Split(s) ==
    IF s = <<>> THEN << <<>> >>
    ELSE LET rest == Split(Tail(s))
         IN  IF Head(s) = "."
             THEN << <<>> >> \o rest
             ELSE << <<Head(s)>> \o Head(rest) >> \o Tail(rest)

RECURSIVE LStrip(_)
LStrip(s) == IF s # <<>> /\ Head(s) = " " THEN LStrip(Tail(s)) ELSE s

RECURSIVE RStrip(_)
RStrip(s) ==
    IF s # <<>> /\ s[Len(s)] = " " THEN RStrip(SubSeq(s, 1, Len(s) - 1)) ELSE s

\* str.strip()
Strip(s) == RStrip(LStrip(s))

\* [p for p in path.split(".") if p]
RECURSIVE NonEmpty(_)
\* str.lower() on the atoms: the upper-case chunks the model draws.
Lower(s) ==
    LET lowered == ("EXIT" :> "exit") @@ ("Quit" :> "quit") @@ ("March" :> "march")
                   @@ ("Feb" :> "feb") @@ ("SEPT" :> "sept") @@ ("RD" :> "rd")
                   @@ ("Deadline" :> "deadline")
    IN  [i \in DOMAIN s |-> IF s[i] \in DOMAIN lowered THEN lowered[s[i]] ELSE s[i]]

NonEmpty(segs) ==
    IF segs = <<>> THEN <<>>
    ELSE IF Head(segs) = <<>> THEN NonEmpty(Tail(segs))
         ELSE <<Head(segs)>> \o NonEmpty(Tail(segs))

IsPrefix(a, b) == Len(a) <= Len(b) /\ SubSeq(b, 1, Len(a)) = a

-----------------------------------------------------------------------------
(* PatchOp engine: intake/agent.py                                         *)

\* A mutant of SetParts: a non-mapping or missing intermediate node makes
\* the whole parent mapping be replaced.
RECURSIVE SetPartsClobber(_, _, _)
SetPartsClobber(d, parts, value) ==
    IF Len(parts) = 1 THEN DictPut(d, parts[1], value)
    ELSE LET key == parts[1]
         IN  IF key \in DOMAIN d /\ IsDict(d[key])
             THEN DictPut(d, key, Dict(SetPartsClobber(d[key].d, Tail(parts), value)))
             ELSE DictPut(EmptyMap, key, Dict(SetPartsClobber(EmptyMap, Tail(parts), value)))

\* The loop and the final assignment of set_by_path, on the mapping d that
\* cur refers to: an intermediate node that is missing or not a dict is
\* replaced by {}, the last key receives the value.
RECURSIVE SetParts(_, _, _)
SetParts(d, parts, value) ==
    IF Len(parts) = 1 THEN DictPut(d, parts[1], value)
    ELSE LET key == parts[1]
             child == IF key \in DOMAIN d /\ IsDict(d[key]) THEN d[key].d ELSE EmptyMap
         IN  DictPut(d, key, Dict(SetParts(child, Tail(parts), value)))

\* parts = [p for p in path.split(".") if p]
PathParts(path) == NonEmpty(Split(path))

\* set_by_path(dst, path, value); dst is a dict at every call site.
set_by_path(d, path, value) ==
    LET parts == PathParts(path)
    IN  IF parts = <<>> THEN d ELSE SetParts(d, parts, value)

\* One iteration of the loop of apply_patch_ops: a non-dict entry, a
\* non-string path and a blank path are skipped.
ApplyOp(d, op) ==
    IF ~IsDict(op) THEN d
    ELSE LET path == DictGet(op.d, <<"path">>)
         IN  IF ~IsStr(path) \/ Strip(path.s) = <<>> THEN d
             ELSE set_by_path(d, Strip(path.s), DictGet(op.d, <<"value">>))

\* apply_patch_ops(dst, ops): the ops in list order.
RECURSIVE apply_patch_ops(_, _)
apply_patch_ops(d, opList) ==
    IF opList = <<>> THEN d
    ELSE apply_patch_ops(ApplyOp(d, Head(opList)), Tail(opList))

\* _get_by_path(d, path): None as soon as a non-dict is met.
RECURSIVE GetParts(_, _)
GetParts(v, parts) ==
    IF parts = <<>> THEN v
    ELSE IF ~IsDict(v) THEN Null
         ELSE GetParts(DictGet(v.d, Head(parts)), Tail(parts))

_get_by_path(d, path) == GetParts(Dict(d), Split(path))

\* A PatchOp {path, value} as the dict the engine receives.
Op(path, value) == Dict((<<"path">> :> Str(path)) @@ (<<"value">> :> value))

-----------------------------------------------------------------------------
(* Slot-fill tracker: intake/agent.py, intake/schemas.py                   *)

\* A mutant of _is_answered: a number or a boolean counts by its truth value.
RECURSIVE _is_answered_truthy(_)
_is_answered_truthy(value) ==
    CASE value.t = "null" -> FALSE
      [] value.t = "str"  -> Strip(value.s) # <<>>
      [] value.t = "list" -> Len(value.l) > 0
      [] value.t = "dict" -> \E k \in DOMAIN value.d : _is_answered_truthy(value.d[k])
      [] value.t = "num"  -> value.n # 0
      [] value.t = "bool" -> value.b
      [] OTHER            -> TRUE

\* _is_answered(value) of intake/agent.py
RECURSIVE _is_answered(_)
_is_answered(value) ==
    CASE value.t = "null" -> FALSE
      [] value.t = "str"  -> Strip(value.s) # <<>>
      [] value.t = "list" -> Len(value.l) > 0
      [] value.t = "dict" -> \E k \in DOMAIN value.d : _is_answered(value.d[k])
      [] OTHER            -> TRUE

NumDeep == 2        \* how many of the modelled deep paths are in the order

\* DEEP_PATHS_ORDER, restricted to a sub-list that keeps the source's order.
ModelledDeepPaths ==
    << <<"us_only">>, <<"sat", ".", "status">>, <<"sat", ".", "math">> >>

DEEP_PATHS_ORDER == SubSeq(ModelledDeepPaths, 1, NumDeep)

\* PRIORITY_SLOTS, restricted to its first two slots.
PRIORITY_SLOTS == << <<"us_only">>, <<"residency_status">> >>

\* PROFILE_TEMPLATE, restricted to _meta and the fields of the modelled paths.
PROFILE_TEMPLATE ==
    (<<"_meta">> :> Dict(<<"asked_paths">> :> List(<<>>)))
    @@ (<<"us_only">> :> Null)
    @@ (<<"residency_status">> :> Null)
    @@ (<<"sat">> :> Dict((<<"status">> :> Null) @@ (<<"math">> :> Null)))

\* new_profile(): an independent copy of the template.
new_profile == PROFILE_TEMPLATE

SeqRange(seq) == {seq[i] : i \in 1..Len(seq)}

\* meta.get("asked_paths") if it is a list, else [], for the _meta of a profile
\* (meta itself is {} when _meta is not a dict).
AskedPathsOf(p) ==
    LET m == DictGet(p, <<"_meta">>)
        meta == IF IsDict(m) THEN m.d ELSE EmptyMap
        asked == DictGet(meta, <<"asked_paths">>)
    IN  IF IsList(asked) THEN asked.l ELSE <<>>

\* {p for p in asked_paths if isinstance(p, str) and p.strip()}
AskedSet(p) ==
    {x.s : x \in {y \in SeqRange(AskedPathsOf(p)) : IsStr(y) /\ Strip(y.s) # <<>>}}

\* A mutant of UnfilledFrom: the paths are appended from the last of the
\* order to the first.
RECURSIVE UnfilledFromBackwards(_, _, _)
UnfilledFromBackwards(p, asked, paths) ==
    IF paths = <<>> THEN <<>>
    ELSE IF Head(paths) \in asked \/ _is_answered(_get_by_path(p, Head(paths)))
         THEN UnfilledFromBackwards(p, asked, Tail(paths))
         ELSE UnfilledFromBackwards(p, asked, Tail(paths)) \o <<Head(paths)>>

\* The loop over DEEP_PATHS_ORDER: a path in the asked set is skipped, an
\* answered path is skipped, the others are appended in order.  With no
\* asked set it is the comprehension over PRIORITY_SLOTS.
RECURSIVE UnfilledFrom(_, _, _)
UnfilledFrom(p, asked, paths) ==
    IF paths = <<>> THEN <<>>
    ELSE IF Head(paths) \in asked \/ _is_answered(_get_by_path(p, Head(paths)))
         THEN UnfilledFrom(p, asked, Tail(paths))
         ELSE <<Head(paths)>> \o UnfilledFrom(p, asked, Tail(paths))

\* A mutant of UnfilledDeep: the first path of the order is never looked at.
UnfilledDeepFromSecond(p) == UnfilledFrom(p, AskedSet(p), Tail(DEEP_PATHS_ORDER))

\* unfilled_deep_paths at the start of a turn, and remaining after the patch.
UnfilledDeep(p) == UnfilledFrom(p, AskedSet(p), DEEP_PATHS_ORDER)

\* A mutant of ForcedContinuation: the action is not looked at.
ForcedContinuationAnyAction(mode, action, remaining) ==
    mode = "deep" /\ remaining # <<>>

\* The forced continuation is taken when the oracle finishes in deep mode
\* while a path remains.
ForcedContinuation(mode, action, remaining) ==
    mode = "deep" /\ action = "FINISH" /\ remaining # <<>>

\* The record of the answered question in _meta.asked_paths.
MarkAsked(p, qid, answer) ==
    IF IsStr(qid) /\ qid.s # <<>> /\ Strip(qid.s) # <<>> /\ answer # Null
    THEN LET m == DictGet(p, <<"_meta">>)
             meta2 == IF IsDict(m) THEN m.d ELSE EmptyMap
             a == DictGet(meta2, <<"asked_paths">>)
             asked2 == IF IsList(a) THEN a.l ELSE <<>>
             asked3 == IF Str(Strip(qid.s)) \in SeqRange(asked2)
                       THEN asked2 ELSE Append(asked2, Str(Strip(qid.s)))
         IN  DictPut(p, <<"_meta">>, Dict(DictPut(meta2, <<"asked_paths">>, List(asked3))))
    ELSE p

-----------------------------------------------------------------------------
(* Profile objects                                                         *)

\* A mutant of deepcopy: the working profile is the caller's own object.
deepcopy_alias(h, ref) == [ref |-> ref, heap |-> h]

\* copy.deepcopy(profile): a new object (2) with the content of the caller's.
deepcopy(h, ref) == [ref |-> 2, heap |-> [h EXCEPT ![2] = h[ref]]]

\* The locals of a turn that has not started.
NoTurn ==
    [calls |-> 0, unfilled |-> <<>>, unfilled_priority |-> <<>>,
     allow_finish |-> TRUE, first |-> "",
     forced_next |-> Null, response |-> Null,
     user_ops |-> <<>>, asked_on |-> EmptyMap, oracle |-> Null,
     probes |-> <<>>, exc |-> Null]

-----------------------------------------------------------------------------
(* The pipeline state, the store files and the messages                    *)

\* The store files under DATA_DIR; disk[f] is the client's entry in file f.
StoreFiles ==
    {"intake_profiles.json", "advisor_results.json", "cv_review_results.json",
     "scholarships_profiles.json", "scholarship_recommendations.json",
     "prep_suggestions.json"}

EmptyDisk == [f \in StoreFiles |-> Null]

\* _save_to_disk(filename, client_id, data): the client's entry is replaced.
_save_to_disk(d, filename, data) == [d EXCEPT ![filename] = data]

\* _load_from_disk(filename, client_id): the client's entry, or None.
_load_from_disk(d, filename) == d[filename]

\* The state run_pipeline hands to graph.invoke.
initial_state ==
    [profile |-> Null, advisor_recommendations |-> Null, cv_feedback |-> Null,
     scholarship_list |-> Null, scholarship_prep_plan |-> Null,
     chat_history |-> <<>>, next_node |-> Null, is_complete |-> FALSE,
     error |-> Null]

\* A message: a fixed text followed by the characters of an inserted text.
Msg(text, inserted) == Str(<<text>> \o inserted)

\* A mutant of Truncate: the text is kept whole.
TruncateNothing(s, k) == s

\* s[:k] of a text.
Truncate(s, k) == SubSeq(s, 1, IF Len(s) < k THEN Len(s) ELSE k)

\* The record of an event of the given kind at the current node, kept when
\* the state already carries an error.
Noted(kinds) ==
    IF state.error # Null THEN after_error \cup {<<k, node>> : k \in kinds}
    ELSE after_error

\* The locals of a node that is not running.
NoLocals ==
    /\ agent = "none" /\ pc = "idle"
    /\ heap = <<EmptyMap, EmptyMap>> /\ updated_profile = 1
    /\ profile_in = EmptyMap /\ last_user_answer = Null
    /\ last_question_id = Null /\ turn = NoTurn /\ answered_ids = {}
    /\ node_profile = EmptyMap /\ loop_i = 0

\* The locals of a node go out of scope when the node returns.
DropLocals ==
    /\ agent' = "none"
    /\ heap' = <<EmptyMap, EmptyMap>> /\ updated_profile' = 1
    /\ profile_in' = EmptyMap /\ last_user_answer' = Null
    /\ last_question_id' = Null /\ turn' = NoTurn /\ answered_ids' = {}
    /\ node_profile' = EmptyMap /\ loop_i' = 0

\* A node returns its state to the graph.
NodeReturn(st, d) ==
    /\ state' = st
    /\ disk' = d
    /\ UNCHANGED node
    /\ DropLocals
    /\ pc' = "done"

-----------------------------------------------------------------------------
(* The oracle and the user, as the intake agent sees them                  *)

Question(id) == [id |-> Str(id), text |-> Str(<<"?">>)]

\* The actions NEXT_TURN_SCHEMA of intake/schemas.py allows.
IntakeActions == {"ASK", "CLARIFY", "FINISH", "END_NOT_US"}

IntakeQuestions == {Null} \cup {Question(p) : p \in SeqRange(DEEP_PATHS_ORDER)}

Skip == Str(<<"Skip">>)

\* The patch ops the oracle may emit: the eligibility flag or null for
\* us_only, an answer for every other deep path, and a write into the
\* profile's _meta.
IntakeOracleOps ==
    {Op(<<"us_only">>, Bool(FALSE)), Op(<<"us_only">>, Null),
     Op(<<"_meta", ".", "asked_paths">>, List(<<>>))}
        \cup {Op(DEEP_PATHS_ORDER[i], Skip) : i \in 2..Len(DEEP_PATHS_ORDER)}

IntakePatches ==
    {<<>>} \cup {<<o>> : o \in IntakeOracleOps}
        \cup {<<Op(DEEP_PATHS_ORDER[1], Bool(FALSE)), Op(DEEP_PATHS_ORDER[2], Skip)>>}

\* A response that parses as the JSON object of NEXT_TURN_SCHEMA; from_call is
\* the oracle call that produced it.
IntakeResponses(n) ==
    [action : IntakeActions, question : IntakeQuestions,
     profile_patch : IntakePatches, from_call : {n}]

\* A text of n characters.
Chars(n) == [i \in 1..n |-> "e"]

\* raw[:1200]: how much of the raw text next_turn quotes.
SnippetChars == 1200

\* Texts _extract_first_message_text may return that are not the JSON of an
\* object: no text, text with a line break, text longer than a snippet, and
\* the JSON of a list.
RawTexts == {<<>>, <<"e", "\n", "e">>, <<"[]">>, Chars(SnippetChars + 1)}

\* A response with such a text.
Unparseable(raw) == [action |-> "unparseable", raw |-> raw]

UnparseableResponses == {Unparseable(raw) : raw \in RawTexts}

\* An exception and the text str() gives for it.
Exception(type, text) == [type |-> type, text |-> text]

\* _parse_strict_json_object on a text of RawTexts: what json.loads makes of
\* it or the exception that leaves the function.  No text of RawTexts holds a
\* brace, so the salvage of the first {...} block re-raises.
_parse_strict_json_object(raw) ==
    IF Strip(raw) = <<>>
    THEN Raised(Exception("ValueError", <<"Empty model output (expected JSON).">>))
    ELSE IF Strip(raw) = <<"[]">>
    THEN Returned(List(<<>>))
    ELSE Raised(Exception("JSONDecodeError",
                          <<"Expecting value: line 1 column 1 (char 0)">>))

\* .replace("\n", "\\n")
EscapeNewlines(s) == [i \in DOMAIN s |-> IF s[i] = "\n" THEN "\\n" ELSE s[i]]

\* The snippet of the raw text that the RuntimeError of next_turn quotes.
Snippet(raw) == EscapeNewlines(Truncate(raw, SnippetChars))

\* What leaves next_turn when the first response is such a text: the parse
\* error wrapped with the snippet, or the failure of data.get on a list.
FirstParseFailure(raw) ==
    LET parsed == _parse_strict_json_object(raw)
    IN  IF parsed.t = "raised"
        THEN Exception("RuntimeError",
                       <<"Failed to parse model JSON. Raw snippet: ">> \o Snippet(raw))
        ELSE Exception("AttributeError", <<"'list' object has no attribute 'get'">>)

\* What leaves next_turn when the forced response is such a text: the parse
\* error as it is, or the failure of data2.get on a list.
ForcedParseFailure(raw) ==
    LET parsed == _parse_strict_json_object(raw)
    IN  IF parsed.t = "raised"
        THEN parsed.e
        ELSE Exception("AttributeError", <<"'list' object has no attribute 'get'">>)

\* What input("You: ") may return, before .strip().
IntakeInputs == {<<" ", "Skip">>, <<"EXIT">>}

-----------------------------------------------------------------------------
(* IntakeAgent.next_turn and the loop of intake_form_node                  *)

\* intake_form_node up to its loop: the agent and the fresh profile.
\* Without a key the SDK constructor may refuse to build the client.
IntakeStart ==
    /\ node = "intake_form" /\ pc = "idle"
    /\ agent' = "intake"
    /\ \/ /\ ~api_key
          /\ pc' = "raised"
          /\ UNCHANGED <<heap, profile_in>>
       \/ /\ heap' = <<new_profile, EmptyMap>>
          /\ profile_in' = new_profile
          /\ pc' = "call"
    /\ after_error' = Noted({"run"})
    /\ UNCHANGED <<completion_mode, updated_profile, last_user_answer,
                   last_question_id, turn, answered_ids, patchVars,
                   node, state, disk, api_key, node_profile, loop_i, printed>>

\* next_turn up to the return or to the forced second call: the slot lists,
\* the first oracle call, the patch, the asked mark, the FINISH check.
IntakeFirstCallOn(Responses) ==
    /\ agent = "intake" /\ pc = "call"
    /\ LET p == heap[1]
           unfilled_deep_paths ==
               IF completion_mode = "deep" THEN UnfilledDeep(p) ELSE <<>>
           unfilled_priority == UnfilledFrom(p, {}, PRIORITY_SLOTS)
           allow_finish == ~(completion_mode = "deep" /\ unfilled_deep_paths # <<>>)
           started == [NoTurn EXCEPT !.calls = 1, !.unfilled = unfilled_deep_paths,
                                     !.unfilled_priority = unfilled_priority,
                                     !.allow_finish = allow_finish]
       IN  \E data \in Responses :
             IF data.action = "unparseable"
             THEN /\ pc' = "raised"
                  /\ turn' = [started EXCEPT !.oracle = data,
                                             !.exc = FirstParseFailure(data.raw)]
                  /\ UNCHANGED <<heap, updated_profile>>
             ELSE LET c == deepcopy(heap, 1)
                      patched == apply_patch_ops(c.heap[c.ref], data.profile_patch)
                      marked == MarkAsked(patched, last_question_id, last_user_answer)
                      remaining == UnfilledDeep(marked)
                      forced == ForcedContinuation(completion_mode, data.action, remaining)
                  IN  /\ heap' = [c.heap EXCEPT ![c.ref] = marked]
                      /\ updated_profile' = c.ref
                      /\ IF forced
                         THEN /\ pc' = "forced"
                              /\ turn' = [started EXCEPT !.first = data.action,
                                                         !.forced_next = Str(remaining[1])]
                         ELSE /\ pc' = "returned"
                              /\ turn' = [started EXCEPT !.first = data.action,
                                                         !.response = data]
    /\ profile_in' = heap[1]
    /\ after_error' = Noted({"oracle"})
    /\ UNCHANGED <<agent, completion_mode, last_user_answer, last_question_id,
                   answered_ids, patchVars,
                   node, state, disk, api_key, node_profile, loop_i, printed>>

\* A mutant of IntakeForcedCallOn: a second response that finishes while a
\* path remains is answered with one more forced call.
IntakeForcedCallRetry(Responses) ==
    /\ agent = "intake" /\ pc = "forced"
    /\ \E data2 \in Responses :
         IF data2.action = "unparseable"
         THEN /\ pc' = "raised"
              /\ turn' = [turn EXCEPT !.calls = @ + 1, !.oracle = data2,
                                      !.exc = ForcedParseFailure(data2.raw)]
              /\ UNCHANGED heap
         ELSE LET patched == apply_patch_ops(heap[updated_profile], data2.profile_patch)
              IN  /\ heap' = [heap EXCEPT ![updated_profile] = patched]
                  /\ IF data2.action = "FINISH" /\ UnfilledDeep(patched) # <<>>
                            /\ turn.calls < 3
                     THEN /\ pc' = "forced"
                          /\ turn' = [turn EXCEPT !.calls = @ + 1]
                     ELSE /\ pc' = "returned"
                          /\ turn' = [turn EXCEPT !.calls = @ + 1, !.response = data2]
    /\ after_error' = Noted({"oracle"})
    /\ UNCHANGED <<agent, completion_mode, updated_profile, profile_in,
                   last_user_answer, last_question_id, answered_ids, patchVars,
                   node, state, disk, api_key, node_profile, loop_i, printed>>

\* The forced continuation: the second oracle call, its patch, the return of
\* the second response.
IntakeForcedCallOn(Responses) ==
    /\ agent = "intake" /\ pc = "forced"
    /\ \E data2 \in Responses :
         IF data2.action = "unparseable"
         THEN /\ pc' = "raised"
              /\ turn' = [turn EXCEPT !.calls = 2, !.oracle = data2,
                                      !.exc = ForcedParseFailure(data2.raw)]
              /\ UNCHANGED heap
         ELSE /\ heap' = [heap EXCEPT ![updated_profile] =
                              apply_patch_ops(heap[updated_profile], data2.profile_patch)]
              /\ pc' = "returned"
              /\ turn' = [turn EXCEPT !.calls = 2, !.response = data2]
    /\ after_error' = Noted({"oracle"})
    /\ UNCHANGED <<agent, completion_mode, updated_profile, profile_in,
                   last_user_answer, last_question_id, answered_ids, patchVars,
                   node, state, disk, api_key, node_profile, loop_i, printed>>

\* The question ids answered so far, once the turn that carried the answer
\* has returned.
AnsweredAfterTurn ==
    IF IsStr(last_question_id) /\ Strip(last_question_id.s) # <<>>
           /\ last_user_answer # Null
    THEN answered_ids \cup {Strip(last_question_id.s)}
    ELSE answered_ids

\* The caller rebinds its profile to the returned object.
Rebind == [heap EXCEPT ![1] = heap[updated_profile], ![2] = EmptyMap]

\* The node's return with an error: the graph moves on along its edge.
IntakeError(text) == NodeReturn([state EXCEPT !.error = Msg(text, <<>>)], disk)

\* The body of the while loop of intake_form_node after next_turn returned,
\* and what follows the loop when it ends; answers is what loop_i holds once
\* an answer has been taken.
IntakeCallerCounting(Inputs, answers) ==
    /\ agent = "intake" /\ pc = "returned"
    /\ LET response == turn.response
           q == response.question
           profile == heap[updated_profile]
       IN  IF response.action = "FINISH"
           THEN NodeReturn([state EXCEPT !.profile = Dict(profile)],
                           _save_to_disk(disk, "intake_profiles.json", Dict(profile)))
           ELSE IF response.action = "END_NOT_US"
           THEN IntakeError("Intake ended: Student not eligible (US only).")
           ELSE IF q = Null \/ q.text.s = <<>>
           THEN IntakeError("Intake error: missing question.")
           ELSE \E typed \in Inputs :
                  IF Lower(Strip(typed)) \in {<<"exit">>, <<"quit">>}
                  THEN IntakeError("User cancelled intake process.")
                  ELSE /\ heap' = Rebind
                       /\ updated_profile' = 1
                       /\ answered_ids' = AnsweredAfterTurn
                       /\ turn' = NoTurn
                       /\ last_question_id' = q.id
                       /\ last_user_answer' = Str(Strip(typed))
                       /\ pc' = "call"
                       /\ loop_i' = answers
                       /\ UNCHANGED <<agent, profile_in, node, state, disk,
                                      node_profile>>
    /\ after_error' = Noted(IF turn.response.action = "FINISH" THEN {"write"} ELSE {})
    /\ UNCHANGED <<completion_mode, api_key, printed, patchVars>>

\* The loop as the code has it: a while True that counts nothing.
IntakeCallerOn(Inputs) == IntakeCallerCounting(Inputs, loop_i)

\* next_turn raised: nothing in intake_form_node or in the graph catches it.
IntakeCrash ==
    /\ agent = "intake" /\ pc = "raised"
    /\ node' = "crashed"
    /\ DropLocals
    /\ pc' = "done"
    /\ UNCHANGED <<completion_mode, state, disk, api_key, after_error, printed,
                   patchVars>>

-----------------------------------------------------------------------------
(* Scholarships agent: scholarships/agent.py                               *)

\* _is_set(v) of scholarships/agent.py and scholarship_prep/agent.py
RECURSIVE _is_set(_)
_is_set(v) ==
    CASE v.t = "null" -> FALSE
      [] v.t = "str"  -> Strip(v.s) # <<>>
      [] v.t = "list" -> Len(v.l) > 0
      [] v.t = "dict" -> \E k \in DOMAIN v.d : _is_set(v.d[k])
      [] OTHER        -> TRUE

\* The chunks made of digits only, and the number such a chunk denotes.
DigitChunks == {"5"}
DigitValue(c) == IF c = "5" THEN 5 ELSE 0

\* s.replace(".", "", 1)
RECURSIVE RemoveFirstDot(_)
RemoveFirstDot(s) ==
    IF s = <<>> THEN <<>>
    ELSE IF Head(s) = "." THEN Tail(s)
         ELSE <<Head(s)>> \o RemoveFirstDot(Tail(s))

\* str.isdigit()
IsDigit(s) == s # <<>> /\ \A i \in DOMAIN s : s[i] \in DigitChunks

\* float(a); the numeric answers drawn are whole numbers of one chunk.
FloatOf(a) == Num(DigitValue(a[1]))

\* _patch_for_answer(question_id, answer): the op that stores the answer.
_patch_for_answer(question_id, answer) ==
    LET a == IF IsStr(answer) THEN Strip(answer.s) ELSE <<>>
    IN  IF ~IsStr(question_id) \/ question_id.s = <<>> \/ a = <<>> THEN <<>>
        ELSE IF IsDigit(RemoveFirstDot(Lower(a)))
             THEN <<Op(question_id.s, FloatOf(a))>>
             ELSE <<Op(question_id.s, Str(a))>>

\* user_ops of next_turn: the pending answer as patch ops.
UserOps(question_id, answer) ==
    IF IsStr(question_id) /\ question_id.s # <<>> /\ answer # Null
    THEN _patch_for_answer(question_id, answer) ELSE <<>>

Yes == Str(<<"Yes">>)

\* GATING_QUESTIONS, restricted to the first question, the opt-in question
\* and the question that depends on it.
GATING_QUESTIONS ==
    << [id |-> <<"scholarships", ".", "student_level">>, depends_on |-> Null],
       [id |-> <<"scholarships", ".", "identity_scholarships_opt_in">>,
        depends_on |-> Null],
       [id |-> <<"scholarships", ".", "ethnicity">>,
        depends_on |-> [path |-> <<"scholarships", ".", "identity_scholarships_opt_in">>,
                        equals |-> Yes]] >>

\* A mutant of NextGatingFrom: a question that depends on a path is eligible
\* as soon as that path has any answer.
RECURSIVE NextGatingFromIfSet(_, _)
NextGatingFromIfSet(profile, qs) ==
    IF qs = <<>> THEN Null
    ELSE LET q == Head(qs)
             skipped == /\ q.depends_on # Null
                        /\ ~_is_set(_get_by_path(profile, q.depends_on.path))
         IN  IF ~skipped /\ ~_is_set(_get_by_path(profile, q.id))
             THEN Question(q.id)
             ELSE NextGatingFromIfSet(profile, Tail(qs))

\* The loop of _next_gating_question over a list of questions.
RECURSIVE NextGatingFrom(_, _)
NextGatingFrom(profile, qs) ==
    IF qs = <<>> THEN Null
    ELSE LET q == Head(qs)
             skipped == /\ q.depends_on # Null
                        /\ _get_by_path(profile, q.depends_on.path) # q.depends_on.equals
         IN  IF ~skipped /\ ~_is_set(_get_by_path(profile, q.id))
             THEN Question(q.id)
             ELSE NextGatingFrom(profile, Tail(qs))

\* A mutant of _next_gating_question: only the first question is looked at.
NextGatingFirstOnly(profile) == NextGatingFrom(profile, SubSeq(GATING_QUESTIONS, 1, 1))

\* _next_gating_question(profile)
_next_gating_question(profile) == NextGatingFrom(profile, GATING_QUESTIONS)

\* What the GET of _verify_link meets: the status of the response, or no
\* response at all (a timeout or any other network exception).  The last
\* atom of a URL names the host, and the host decides.
NoResponse == 0
Get(url) ==
    CASE url[Len(url)] \in {"ok", "late", "cut", "bare"} -> 200
      [] url[Len(url)] = "gone"                        -> 404
      [] OTHER                                         -> NoResponse

\* A mutant of _verify_link: the status of the response is not looked at.
VerifyLinkAnyStatus(link) ==
    /\ IsStr(link) /\ link.s # <<>>
    /\ (IsPrefix(<<"http://">>, link.s) \/ IsPrefix(<<"https://">>, link.s))
    /\ Get(link.s) # NoResponse

\* _verify_link(url)
_verify_link(link) ==
    /\ IsStr(link) /\ link.s # <<>>
    /\ (IsPrefix(<<"http://">>, link.s) \/ IsPrefix(<<"https://">>, link.s))
    /\ Get(link.s) # NoResponse
    /\ Get(link.s) < 400

\* Whether _verify_link opens a connection for the link.
Probed(link) ==
    /\ IsStr(link) /\ link.s # <<>>
    /\ (IsPrefix(<<"http://">>, link.s) \/ IsPrefix(<<"https://">>, link.s))

\* The runs of digits the model writes, each one atom: how many digits it
\* has and the number int() reads from it.
Numerals ==
    ("0" :> [len |-> 1, n |-> 0]) @@ ("1" :> [len |-> 1, n |-> 1])
    @@ ("2" :> [len |-> 1, n |-> 2]) @@ ("3" :> [len |-> 1, n |-> 3])
    @@ ("6" :> [len |-> 1, n |-> 6]) @@ ("00" :> [len |-> 2, n |-> 0])
    @@ ("01" :> [len |-> 2, n |-> 1]) @@ ("02" :> [len |-> 2, n |-> 2])
    @@ ("03" :> [len |-> 2, n |-> 3]) @@ ("09" :> [len |-> 2, n |-> 9])
    @@ ("12" :> [len |-> 2, n |-> 12]) @@ ("13" :> [len |-> 2, n |-> 13])
    @@ ("20" :> [len |-> 2, n |-> 20]) @@ ("24" :> [len |-> 2, n |-> 24])
    @@ ("25" :> [len |-> 2, n |-> 25]) @@ ("26" :> [len |-> 2, n |-> 26])
    @@ ("29" :> [len |-> 2, n |-> 29]) @@ ("30" :> [len |-> 2, n |-> 30])
    @@ ("31" :> [len |-> 2, n |-> 31]) @@ ("45" :> [len |-> 2, n |-> 45])
    @@ ("003" :> [len |-> 3, n |-> 3]) @@ ("026" :> [len |-> 3, n |-> 26])
    @@ ("126" :> [len |-> 3, n |-> 126]) @@ ("0000" :> [len |-> 4, n |-> 0])
    @@ ("0020" :> [len |-> 4, n |-> 20]) @@ ("0024" :> [len |-> 4, n |-> 24])
    @@ ("0026" :> [len |-> 4, n |-> 26])
    @@ ("0126" :> [len |-> 4, n |-> 126]) @@ ("2020" :> [len |-> 4, n |-> 2020])
    @@ ("2024" :> [len |-> 4, n |-> 2024]) @@ ("2026" :> [len |-> 4, n |-> 2026])
    @@ ("20261" :> [len |-> 5, n |-> 20261])

IsNumeral(a) == a \in DOMAIN Numerals

\* The run of len digits that reads n.
Numeral(len, n) == CHOOSE a \in DOMAIN Numerals : Numerals[a] = [len |-> len, n |-> n]

RECURSIVE Pow10(_)
Pow10(k) == IF k = 0 THEN 1 ELSE 10 * Pow10(k - 1)

\* _MONTHS
_MONTHS ==
    ("jan" :> 1) @@ ("january" :> 1) @@ ("feb" :> 2) @@ ("february" :> 2)
    @@ ("mar" :> 3) @@ ("march" :> 3) @@ ("apr" :> 4) @@ ("april" :> 4)
    @@ ("may" :> 5) @@ ("jun" :> 6) @@ ("june" :> 6) @@ ("jul" :> 7)
    @@ ("july" :> 7) @@ ("aug" :> 8) @@ ("august" :> 8) @@ ("sep" :> 9)
    @@ ("sept" :> 9) @@ ("september" :> 9) @@ ("oct" :> 10) @@ ("october" :> 10)
    @@ ("nov" :> 11) @@ ("november" :> 11) @@ ("dec" :> 12) @@ ("december" :> 12)

\* \w: every atom but the blank and the punctuation is made of word characters.
IsWord(a) == a \notin {" ", ",", "/", "-", ":", "."}

\* \b before the atom at i, and after it.
BoundaryBefore(s, i) == i = 1 \/ IsWord(s[i]) # IsWord(s[i - 1])
BoundaryAfter(s, i) == i = Len(s) \/ IsWord(s[i]) # IsWord(s[i + 1])

\* \s* from position i on: the position of the first atom that is no blank.
RECURSIVE SkipSpaces(_, _)
SkipSpaces(s, i) == IF i <= Len(s) /\ s[i] = " " THEN SkipSpaces(s, i + 1) ELSE i

\* A match of the month-name pattern that starts at position i, or Null:
\* the name, blanks, a day of one or two digits, an optional ordinal suffix,
\* a comma between optional blanks, and the first four digits of a run.
MonthDateAt(s, i) ==
    LET name == Lower(<<s[i]>>)[1]
        j == SkipSpaces(s, i + 1)
        hasDay == /\ j > i + 1 /\ j <= Len(s)
                  /\ IsNumeral(s[j]) /\ Numerals[s[j]].len <= 2
        k == IF j < Len(s) /\ Lower(<<s[j + 1]>>)[1] \in {"st", "nd", "rd", "th"}
             THEN j + 2 ELSE j + 1
        c == SkipSpaces(s, k)
        y == SkipSpaces(s, c + 1)
    IN  IF /\ name \in DOMAIN _MONTHS /\ BoundaryBefore(s, i)
           /\ hasDay
           /\ c <= Len(s) /\ s[c] = ","
           /\ y <= Len(s) /\ IsNumeral(s[y]) /\ Numerals[s[y]].len >= 4
        THEN LET year == Numerals[s[y]].n \div Pow10(Numerals[s[y]].len - 4)
             IN  [month |-> _MONTHS[name], day |-> Numerals[s[j]].n, year |-> year,
                  from |-> i, to |-> y,
                  text |-> SubSeq(s, i, y - 1) \o <<Numeral(4, year)>>]
        ELSE Null

\* A match of \b\d{1,2}/\d{1,2}/\d{2,4}\b that starts at position i, or Null.
SlashDateAt(s, i) ==
    IF /\ i + 4 <= Len(s)
       /\ IsNumeral(s[i]) /\ Numerals[s[i]].len <= 2 /\ BoundaryBefore(s, i)
       /\ s[i + 1] = "/"
       /\ IsNumeral(s[i + 2]) /\ Numerals[s[i + 2]].len <= 2
       /\ s[i + 3] = "/"
       /\ IsNumeral(s[i + 4]) /\ Numerals[s[i + 4]].len \in 2..4
       /\ BoundaryAfter(s, i + 4)
    THEN [month |-> Numerals[s[i]].n, day |-> Numerals[s[i + 2]].n,
          year |-> IF Numerals[s[i + 4]].n < 100 THEN Numerals[s[i + 4]].n + 2000
                   ELSE Numerals[s[i + 4]].n,
          from |-> i, to |-> i + 4, text |-> SubSeq(s, i, i + 4)]
    ELSE Null

\* A match of \d{4}-\d{2}-\d{2} that starts at position i, or Null.
IsoDateAt(s, i) ==
    IF /\ i + 4 <= Len(s)
       /\ IsNumeral(s[i]) /\ Numerals[s[i]].len = 4
       /\ s[i + 1] = "-"
       /\ IsNumeral(s[i + 2]) /\ Numerals[s[i + 2]].len = 2
       /\ s[i + 3] = "-"
       /\ IsNumeral(s[i + 4]) /\ Numerals[s[i + 4]].len = 2
    THEN [month |-> Numerals[s[i + 2]].n, day |-> Numerals[s[i + 4]].n,
          year |-> Numerals[s[i]].n,
          from |-> i, to |-> i + 4, text |-> SubSeq(s, i, i + 4)]
    ELSE Null

\* The ISO pattern of _extract_deadline_iso at position i: the one of
\* _parse_date_str between word boundaries.
IsoSearchAt(s, i) ==
    IF IsoDateAt(s, i) # Null /\ BoundaryBefore(s, i) /\ BoundaryAfter(s, i + 4)
    THEN IsoDateAt(s, i) ELSE Null

\* A match of the pattern of the given kind at position i of s, or Null.
MatchAt(kind, s, i) ==
    CASE kind = "month" -> MonthDateAt(s, i)
      [] kind = "slash" -> SlashDateAt(s, i)
      [] kind = "iso" -> IsoSearchAt(s, i)

\* The first of two results that is one.
FirstOf(a, b) == IF a # Null THEN a ELSE b

\* re.search from position i on.
RECURSIVE FirstMatchFrom(_, _, _)
FirstMatchFrom(kind, s, i) ==
    IF i > Len(s) THEN Null
    ELSE FirstOf(MatchAt(kind, s, i), FirstMatchFrom(kind, s, i + 1))

\* re.search: the leftmost match of the pattern in s, or Null.
FirstMatch(kind, s) == FirstMatchFrom(kind, s, 1)

\* date(year, month, day).isoformat(), or Null when date() raises.
IsoFormat(m) ==
    LET leap == (m.year % 4 = 0 /\ m.year % 100 # 0) \/ m.year % 400 = 0
        days == IF m.month = 2 THEN (IF leap THEN 29 ELSE 28)
                ELSE IF m.month \in {4, 6, 9, 11} THEN 30 ELSE 31
    IN  IF /\ m.year \in 1..9999 /\ m.month \in 1..12 /\ m.day \in 1..days
        THEN Str(<<Numeral(4, m.year), "-", Numeral(2, m.month), "-",
                   Numeral(2, m.day)>>)
        ELSE Null

\* The two ifs of _parse_date_str on what the two searches found: a match of
\* the month-name pattern decides, whether date() accepts it or not.
DateOfMatches(byName, bySlash) ==
    IF byName # Null THEN IsoFormat(byName)
    ELSE IF bySlash # Null THEN IsoFormat(bySlash)
    ELSE Null

\* _parse_date_str on the stripped text.
ParseStripped(s) ==
    IF s = <<>> THEN Null
    ELSE IF Len(s) = 5 /\ IsoDateAt(s, 1) # Null THEN Str(s)
    ELSE DateOfMatches(FirstMatch("month", s), FirstMatch("slash", s))

\* The year of a slash match as its digits read.
YearAsWritten(s, bySlash) ==
    IF bySlash = Null THEN Null
    ELSE [bySlash EXCEPT !.year = Numerals[s[bySlash.to]].n]

\* A mutant of _parse_date_str: a two-digit year is taken as written.
ParseDateStrYearAsWritten(s0) ==
    IF Strip(s0) = <<>> THEN Null
    ELSE IF Len(Strip(s0)) = 5 /\ IsoDateAt(Strip(s0), 1) # Null THEN Str(Strip(s0))
    ELSE DateOfMatches(FirstMatch("month", Strip(s0)),
                       YearAsWritten(Strip(s0), FirstMatch("slash", Strip(s0))))

\* _parse_date_str(s)
_parse_date_str(s0) == ParseStripped(Strip(s0))

\* The visible text of the pages the model's links lead to, by the last atom
\* of the link.
Pages ==
    ("ok" :> <<"Deadline", ":", " ", "March", " ", "3", "rd", ",", " ", "2026">>)
    @@ ("late" :> <<"Posted", " ", "1", "/", "2", "/", "26", " ", "x300", " ",
                    "deadline", " ", "3", "/", "3", "/", "26">>)
    @@ ("cut" :> <<"Deadline", " ", "x332", " ", "12", "/", "25", "/", "2026">>)
    @@ ("bare" :> <<"no", " ", "dates">>)

\* len() of an atom: a run of digits has the length of the run, a blank or a
\* punctuation mark is one character, the words are as long as written
\* (x300 and x332 stand for 300 and 332 characters that hold no date).
AtomLen(a) ==
    LET widths == ("Deadline" :> 8) @@ ("deadline" :> 8) @@ ("March" :> 5)
                  @@ ("Posted" :> 6) @@ ("rd" :> 2) @@ ("no" :> 2) @@ ("dates" :> 5)
                  @@ ("x300" :> 300) @@ ("x332" :> 332)
    IN  IF IsNumeral(a) THEN Numerals[a].len ELSE IF IsWord(a) THEN widths[a] ELSE 1

\* len(text)
RECURSIVE TextLen(_)
TextLen(s) == IF s = <<>> THEN 0 ELSE AtomLen(Head(s)) + TextLen(Tail(s))

\* text[a:b] where the first atom of s starts at character o.  A cut through
\* a run of digits leaves the digits inside the slice; a cut through a word
\* leaves a fragment that is no name of a month.
RECURSIVE SliceFrom(_, _, _, _)
SliceFrom(s, o, a, b) ==
    IF s = <<>> THEN <<>>
    ELSE LET w == AtomLen(Head(s))
             lo == IF a > o THEN a - o ELSE 0
             hi == IF b < o + w THEN b - o ELSE w
             digits == Numerals[Head(s)]
         IN  (IF lo >= hi THEN <<>>
              ELSE IF hi - lo = w THEN <<Head(s)>>
              ELSE IF IsNumeral(Head(s))
                   THEN <<Numeral(hi - lo, (digits.n \div Pow10(digits.len - hi))
                                               % Pow10(hi - lo))>>
                   ELSE <<"~">>)
                 \o SliceFrom(Tail(s), o + w, a, b)

WindowBefore == 250     \* characters before "deadline" in the first window
WindowAfter == 350      \* characters from "deadline" on in the first window
LeadingChars == 1500    \* characters of the second window

\* _fetch_page_text(url): "" when the GET fails or the status is 400 or more.
_fetch_page_text(link) ==
    IF Get(link.s) # NoResponse /\ Get(link.s) < 400
    THEN Pages[link.s[Len(link.s)]] ELSE <<>>

\* The windows of _extract_deadline_iso on a page text: the one around the
\* first "deadline", if the word is there, then the leading text.
Windows(text) ==
    LET hits == {i \in DOMAIN text : Lower(<<text[i]>>)[1] = "deadline"}
        first == CHOOSE i \in hits : \A j \in hits : i <= j
        idx == TextLen(SubSeq(text, 1, first - 1))
        start == IF idx - WindowBefore > 0 THEN idx - WindowBefore ELSE 0
        end == IF TextLen(text) < idx + WindowAfter
               THEN TextLen(text) ELSE idx + WindowAfter
    IN  (IF hits # {} THEN <<SliceFrom(text, 0, start, end)>> ELSE <<>>)
            \o <<SliceFrom(text, 0, 0, LeadingChars)>>

\* What _parse_date_str makes of m.group(0), for a match m.
ParseMatch(m) == IF m = Null THEN Null ELSE _parse_date_str(m.text)

\* The loop over the patterns on one window: the first match of each
\* pattern in turn, until _parse_date_str accepts one.
SearchWindow(w) ==
    FirstOf(ParseMatch(FirstMatch("month", w)),
            FirstOf(ParseMatch(FirstMatch("slash", w)),
                    ParseMatch(FirstMatch("iso", w))))

\* The loop over the windows.
RECURSIVE SearchWindows(_)
SearchWindows(windows) ==
    IF windows = <<>> THEN Null
    ELSE FirstOf(SearchWindow(Head(windows)), SearchWindows(Tail(windows)))

\* What the two loops find on each page of the model, worked out once.
SearchResults == [text \in {Pages[h] : h \in DOMAIN Pages} |-> SearchWindows(Windows(text))]

\* The body of _extract_deadline_iso on the text of the page.
ExtractFrom(text) == IF text = <<>> THEN Null ELSE SearchResults[text]

\* _extract_deadline_iso(url)
_extract_deadline_iso(link) == ExtractFrom(_fetch_page_text(link))

\* ScholarshipsConfig.max_recommendations, as configured for the model.
max_recommendations == 2

\* A mutant of Take: the list is not cut.
TakeAll(seq, n) == seq

\* recs[:n]
Take(seq, n) == SubSeq(seq, 1, IF Len(seq) < n THEN Len(seq) ELSE n)

\* The verification loop of next_turn over the capped candidates.
RECURSIVE Verified(_)
Verified(recs) ==
    IF recs = <<>> THEN <<>>
    ELSE LET r == Head(recs)
             dl == r.deadline
             parsed == IF IsStr(dl) /\ dl.s # <<>> THEN _parse_date_str(dl.s) ELSE Null
             iso == IF parsed = Null THEN _extract_deadline_iso(r.link) ELSE parsed
         IN  IF ~_verify_link(r.link) THEN Verified(Tail(recs))
             ELSE <<[r EXCEPT !.deadline = iso]>> \o Verified(Tail(recs))

\* The links _verify_link opened a connection for, in order.
RECURSIVE ProbesOf(_)
ProbesOf(recs) ==
    IF recs = <<>> THEN <<>>
    ELSE (IF Probed(Head(recs).link) THEN <<Head(recs).link>> ELSE <<>>)
            \o ProbesOf(Tail(recs))

\* The links _extract_deadline_iso requested the page of, in order: those of
\* the kept candidates whose supplied deadline is absent or does not parse.
RECURSIVE FetchesOf(_)
FetchesOf(recs) ==
    IF recs = <<>> THEN <<>>
    ELSE LET r == Head(recs)
             dl == r.deadline
             parsed == IF IsStr(dl) /\ dl.s # <<>> THEN _parse_date_str(dl.s) ELSE Null
         IN  (IF _verify_link(r.link) /\ parsed = Null THEN <<r.link>> ELSE <<>>)
                \o FetchesOf(Tail(recs))

-----------------------------------------------------------------------------
(* The oracle and the user, as the scholarships agent sees them            *)

\* The actions of scholarships/schemas.py.
SchActions == {"ASK", "CLARIFY", "RECOMMEND", "END_NOT_US"}

\* A question of the oracle's own.
ExtraQuestion == Question(<<"scholarships", ".", "gpa">>)

\* The patches the oracle may emit.
SchOraclePatches == {<<>>, <<Op(<<"us_only">>, Bool(FALSE))>>}

\* The links of the candidates: both schemes on a reachable host, an error
\* status, a host that does not answer, and a text that is no URL.
Links ==
    {Str(<<"https://", "ok">>), Str(<<"http://", "ok">>), Str(<<"http://", "gone">>),
     Str(<<"https://", "down">>), Str(<<"not-a-url">>)}

Candidates == [link : Links, deadline : {Null}]

\* The candidate lists: up to one more than the cap.
RecLists == UNION {[1..n -> Candidates] : n \in 0..(max_recommendations + 1)}

\* The parsed NextTurn objects of the oracle.
SchResponses ==
    [action : SchActions, question : {Null, ExtraQuestion},
     profile_patch : SchOraclePatches, note_to_user : {Str(<<"note">>)},
     recommendations : {Null}]
    \cup
    [action : {"RECOMMEND", "CLARIFY"}, question : {Null},
     profile_patch : {<<>>}, note_to_user : {Str(<<"note">>)},
     recommendations : {List(l) : l \in RecLists}]


\* The texts of the exceptions the oracle call and the SDK raise.
ExceptionTexts == {Chars(n) : n \in {0, 100, 101, 160, 161}}

\* An oracle call that raises, and one whose message has no parsed object:
\* parsed.model_dump then raises an AttributeError.
OracleFailures == {[action |-> "raises", text |-> t] : t \in ExceptionTexts}
ParsedNone == [action |-> "raises", text |-> Chars(47)]

\* What input("You: ") may return to the scholarships node.
SchInputs == {<<" ", "Yes">>, <<" ">>}

-----------------------------------------------------------------------------
(* ScholarshipsAgent.next_turn and scholarships_node                       *)

\* A mutant of NodeTurns: the loop runs once more.
NodeTurnsOneMore == 12 + 1

\* for _ in range(12)
NodeTurns == 12

\* str(e)[:160]
NodeErrorChars == 160

\* merged = dict(intake_profile); merged.update(scholarships_profile)
Merged(intake_profile, sub_profile) ==
    [k \in DOMAIN intake_profile \cup DOMAIN sub_profile |->
        IF k \in DOMAIN sub_profile THEN sub_profile[k] ELSE intake_profile[k]]

\* next_turn returns (turn, updated_profile).
TurnReturn(c, profile, response, t) ==
    /\ heap' = [c.heap EXCEPT ![c.ref] = profile]
    /\ updated_profile' = c.ref
    /\ turn' = [t EXCEPT !.response = response]
    /\ pc' = "returned"

\* next_turn raises.
TurnRaise(c, profile, t, text) ==
    /\ heap' = [c.heap EXCEPT ![c.ref] = profile]
    /\ updated_profile' = c.ref
    /\ turn' = [t EXCEPT !.exc = text]
    /\ pc' = "raised"

NextTurn(action, question, patch, note, payload) ==
    [action |-> action, question |-> question, profile_patch |-> patch,
     note_to_user |-> Str(<<note>>), recommendations |-> payload]

\* scholarships_node up to its loop: the agent, the profiles, the merge.
\* Without a key the SDK constructor may refuse to build the client.
SchStart ==
    /\ node = "scholarships" /\ pc = "idle"
    /\ agent' = "scholarships"
    /\ \/ /\ ~api_key
          /\ \E text \in ExceptionTexts :
               /\ turn' = [NoTurn EXCEPT !.exc = text]
               /\ pc' = "raised"
               /\ UNCHANGED <<heap, profile_in, node_profile, loop_i>>
       \/ LET intake_profile == IF IsDict(state.profile) THEN state.profile.d ELSE EmptyMap
              stored == _load_from_disk(disk, "scholarships_profiles.json")
              scholarships_profile == IF IsDict(stored) THEN stored.d ELSE EmptyMap
              merged == Merged(intake_profile, scholarships_profile)
          IN  /\ heap' = <<merged, EmptyMap>>
              /\ profile_in' = merged
              /\ node_profile' = scholarships_profile
              /\ loop_i' = 1
              /\ pc' = "call"
              /\ UNCHANGED turn
    /\ after_error' = Noted({"run"})
    /\ UNCHANGED <<completion_mode, updated_profile, last_user_answer,
                   last_question_id, answered_ids, patchVars,
                   node, state, disk, api_key, printed>>

\* ScholarshipsAgent.next_turn
SchTurnOn(Responses) ==
    /\ agent = "scholarships" /\ pc = "call"
    /\ LET c == deepcopy(heap, 1)
           p0 == c.heap[c.ref]
           user_ops == UserOps(last_question_id, last_user_answer)
           p1 == apply_patch_ops(p0, user_ops)
           gq == _next_gating_question(p1)
           t1 == [NoTurn EXCEPT !.user_ops = user_ops, !.asked_on = p1]
       IN  IF _get_by_path(p0, <<"us_only">>) = Bool(FALSE)
           THEN /\ TurnReturn(c, p0, NextTurn("END_NOT_US", Null, <<>>,
                        "This scholarships flow currently targets US-based scholarships.",
                        Null), [NoTurn EXCEPT !.asked_on = p0])
                /\ UNCHANGED after_error
           ELSE IF ~api_key
           THEN /\ TurnReturn(c, p1, NextTurn("CLARIFY", Null, user_ops,
                        "Set OPENAI_API_KEY (or a .env file) to use the scholarships recommender.",
                        Null), t1)
                /\ UNCHANGED after_error
           ELSE IF gq # Null
           THEN /\ TurnReturn(c, p1, NextTurn("ASK", gq, user_ops,
                        "Quick eligibility question so I can target the right college-specific scholarships.",
                        Null), t1)
                /\ UNCHANGED after_error
           ELSE /\ after_error' = Noted({"oracle"})
                /\ \E out \in Responses :
                     LET t2 == [t1 EXCEPT !.calls = 1, !.oracle = out]
                     IN  IF out.action = "raises"
                         THEN TurnRaise(c, p1, t2, out.text)
                         ELSE LET model_ops == out.profile_patch
                                  p2 == apply_patch_ops(p1, model_ops)
                                  patched == [out EXCEPT !.profile_patch = user_ops \o model_ops]
                                  recs == out.recommendations
                              IN  IF ~IsList(recs)
                                  THEN TurnReturn(c, p2, patched, t2)
                                  ELSE LET capped == Take(recs.l, max_recommendations)
                                           verified == Verified(capped)
                                           kept == [patched EXCEPT !.recommendations = List(verified)]
                                           t3 == [t2 EXCEPT !.probes = ProbesOf(capped)]
                                       IN  IF out.action = "RECOMMEND" /\ verified = <<>>
                                           THEN TurnReturn(c, p2,
                                                  [kept EXCEPT !.action = "CLARIFY",
                                                               !.note_to_user = Str(<<"I couldn't verify the scholarship links I generated.">>),
                                                               !.question = Null], t3)
                                           ELSE TurnReturn(c, p2, kept, t3)
    /\ profile_in' = heap[1]
    /\ UNCHANGED <<agent, completion_mode, last_user_answer, last_question_id,
                   answered_ids, patchVars,
                   node, state, disk, api_key, node_profile, loop_i, printed>>

\* The body of the loop of scholarships_node after next_turn returned, and
\* what follows the loop when it ends.
SchCallerOn(Inputs) ==
    /\ agent = "scholarships" /\ pc = "returned"
    /\ LET response == turn.response
           patch_ops == response.profile_patch
           saved == patch_ops # <<>>
           sp == IF saved THEN apply_patch_ops(node_profile, patch_ops) ELSE node_profile
           d1 == IF saved
                 THEN _save_to_disk(disk, "scholarships_profiles.json", Dict(sp))
                 ELSE disk
           q == response.question
           Fail(message) == NodeReturn([state EXCEPT !.error = message], d1)
       IN  CASE response.action = "ASK" ->
                  /\ after_error' = Noted(IF saved THEN {"write"} ELSE {})
                  /\ IF q = Null \/ q.text.s = <<>>
                     THEN Fail(Msg("Scholarships error: missing question.", <<>>))
                     ELSE \E typed \in Inputs :
                            IF loop_i = NodeTurns
                            THEN Fail(Msg("Scholarships: too many turns without completion.", <<>>))
                            ELSE /\ heap' = Rebind
                                 /\ updated_profile' = 1
                                 /\ turn' = NoTurn
                                 /\ last_question_id' = q.id
                                 /\ last_user_answer' = Str(Strip(typed))
                                 /\ node_profile' = sp
                                 /\ disk' = d1
                                 /\ loop_i' = loop_i + 1
                                 /\ pc' = "call"
                                 /\ UNCHANGED <<agent, profile_in, answered_ids,
                                                node, state>>
             [] response.action = "END_NOT_US" ->
                  /\ after_error' = Noted(IF saved THEN {"write"} ELSE {})
                  /\ Fail(Msg("Scholarships ended: Student not eligible (US only).", <<>>))
             [] response.action = "CLARIFY" ->
                  /\ after_error' = Noted(IF saved THEN {"write"} ELSE {})
                  /\ Fail(Msg("Scholarships: ", response.note_to_user.s))
             [] response.action = "RECOMMEND" ->
                  LET recs == IF IsList(response.recommendations)
                              THEN response.recommendations.l ELSE <<>>
                      result == [recommendations |-> recs,
                                 note_to_user |-> response.note_to_user]
                  IN  /\ after_error' = Noted({"write"})
                      /\ NodeReturn([state EXCEPT !.scholarship_list = result],
                                    _save_to_disk(d1, "scholarship_recommendations.json", result))
    /\ UNCHANGED <<completion_mode, api_key, printed, patchVars>>

\* The except clause of scholarships_node.
SchCatch ==
    /\ agent = "scholarships" /\ pc = "raised"
    /\ NodeReturn([state EXCEPT !.error = Msg("Scholarship agent failed: ",
                                              Truncate(turn.exc, NodeErrorChars))],
                  disk)
    /\ UNCHANGED <<completion_mode, api_key, after_error, printed, patchVars>>

-----------------------------------------------------------------------------
(* ScholarshipPrepAgent.next_turn and scholarship_prep_node                *)

\* PREP_QUESTIONS, restricted to the first question and a numeric one.
PREP_QUESTIONS ==
    << [id |-> <<"prep", ".", "current_extracurriculars">>],
       [id |-> <<"prep", ".", "available_hours_weekly">>] >>

\* The loop of _next_prep_question over a list of questions.
RECURSIVE NextPrepFrom(_, _)
NextPrepFrom(profile, qs) ==
    IF qs = <<>> THEN Null
    ELSE IF ~_is_set(_get_by_path(profile, Head(qs).id))
         THEN Question(Head(qs).id)
         ELSE NextPrepFrom(profile, Tail(qs))

\* _next_prep_question(profile)
_next_prep_question(profile) == NextPrepFrom(profile, PREP_QUESTIONS)

\* The actions of scholarship_prep/schemas.py.
PrepActions == {"ASK", "CLARIFY", "SUGGEST", "END"}

PrepExtraQuestion == Question(<<"prep", ".", "goal">>)

PrepOraclePatches == {<<>>, <<Op(<<"prep", ".", "goal">>, Yes)>>}

\* The parsed NextTurn objects of the prep oracle.
PrepResponses ==
    [action : PrepActions, question : {Null, PrepExtraQuestion},
     profile_patch : PrepOraclePatches, note_to_user : {Str(<<"note">>)},
     summary : {Str(<<"summary">>)},
     suggestions : {Null, List(<<Str(<<"suggestion">>)>>)}]

\* An oracle message without a parsed object.
NoParsed == [action |-> "none"]

\* What input("You: ") may return to the prep node.
PrepInputs == {<<"5">>, <<" ">>}

\* str(e)[:100]
PrepNoteChars == 100

\* A mutant of PrepTurnOf: the turn carries no patch.
PrepTurnOfNoPatch(action, question, patch, note) ==
    [action |-> action, question |-> question, profile_patch |-> <<>>,
     note_to_user |-> note, summary |-> Null, suggestions |-> Null]

\* A NextTurn the prep agent builds itself.
PrepTurnOf(action, question, patch, note) ==
    [action |-> action, question |-> question, profile_patch |-> patch,
     note_to_user |-> note, summary |-> Null, suggestions |-> Null]

\* scholarship_prep_node up to its loop.  Without a key the SDK constructor
\* may refuse to build the client.
PrepStart ==
    /\ node = "scholarship_prep" /\ pc = "idle"
    /\ agent' = "prep"
    /\ \/ /\ ~api_key
          /\ \E text \in ExceptionTexts :
               /\ turn' = [NoTurn EXCEPT !.exc = text]
               /\ pc' = "raised"
               /\ UNCHANGED <<heap, profile_in, node_profile, loop_i>>
       \/ LET intake_profile == IF IsDict(state.profile) THEN state.profile.d ELSE EmptyMap
              stored == _load_from_disk(disk, "scholarships_profiles.json")
              scholarships_profile == IF IsDict(stored) THEN stored.d ELSE EmptyMap
              merged == Merged(intake_profile, scholarships_profile)
          IN  /\ heap' = <<merged, EmptyMap>>
              /\ profile_in' = merged
              /\ node_profile' = intake_profile
              /\ loop_i' = 1
              /\ pc' = "call"
              /\ UNCHANGED turn
    /\ after_error' = Noted({"run"})
    /\ UNCHANGED <<completion_mode, updated_profile, last_user_answer,
                   last_question_id, answered_ids, patchVars,
                   node, state, disk, api_key, printed>>

\* ScholarshipPrepAgent.next_turn
PrepTurnOn(Responses) ==
    /\ agent = "prep" /\ pc = "call"
    /\ LET c == deepcopy(heap, 1)
           p0 == c.heap[c.ref]
           user_ops == UserOps(last_question_id, last_user_answer)
           p1 == apply_patch_ops(p0, user_ops)
           next_q == _next_prep_question(p1)
           t1 == [NoTurn EXCEPT !.user_ops = user_ops, !.asked_on = p1]
       IN  IF next_q # Null
           THEN /\ TurnReturn(c, p1, PrepTurnOf("ASK", next_q, user_ops,
                        Str(<<"Let me learn more about your current activities to give you personalized suggestions.">>)),
                        t1)
                /\ UNCHANGED after_error
           ELSE IF ~api_key
           THEN /\ TurnReturn(c, p1, PrepTurnOf("CLARIFY", Null, user_ops,
                        Str(<<"Set OPENAI_API_KEY to use the scholarship prep advisor.">>)),
                        t1)
                /\ UNCHANGED after_error
           ELSE /\ after_error' = Noted({"oracle"})
                /\ \E out \in Responses :
                     LET t2 == [t1 EXCEPT !.calls = 1, !.oracle = out]
                     IN  CASE out.action = "raises" ->
                                TurnReturn(c, p1, PrepTurnOf("CLARIFY", Null, user_ops,
                                    Msg("Error generating suggestions: ",
                                        Truncate(out.text, PrepNoteChars))),
                                    [t2 EXCEPT !.exc = out.text])
                           [] out.action = "none" ->
                                TurnReturn(c, p1, PrepTurnOf("CLARIFY", Null, user_ops,
                                    Str(<<"I couldn't generate suggestions. Please try again.">>)),
                                    t2)
                           [] OTHER ->
                                TurnReturn(c, p1,
                                    IF user_ops # <<>>
                                    THEN [out EXCEPT !.profile_patch = user_ops \o @]
                                    ELSE out, t2)
    /\ profile_in' = heap[1]
    /\ UNCHANGED <<agent, completion_mode, last_user_answer, last_question_id,
                   answered_ids, patchVars,
                   node, state, disk, api_key, node_profile, loop_i, printed>>

\* The body of the loop of scholarship_prep_node after next_turn returned,
\* and what follows the loop when it ends.  intake_profile is the dict the
\* state holds, so patching it patches state["profile"].
PrepCallerOn(Inputs) ==
    /\ agent = "prep" /\ pc = "returned"
    /\ LET response == turn.response
           patch_ops == response.profile_patch
           saved == patch_ops # <<>>
           ip == IF saved THEN apply_patch_ops(node_profile, patch_ops) ELSE node_profile
           d1 == IF saved
                 THEN _save_to_disk(disk, "intake_profiles.json", Dict(ip))
                 ELSE disk
           st == [state EXCEPT !.profile = IF IsDict(@) THEN Dict(ip) ELSE @]
           q == response.question
           Fail(message) == NodeReturn([st EXCEPT !.error = message], d1)
           Plan(result) ==
               NodeReturn([st EXCEPT !.scholarship_prep_plan = result],
                          _save_to_disk(d1, "prep_suggestions.json", result))
       IN  CASE response.action = "ASK" ->
                  /\ after_error' = Noted(IF saved THEN {"write"} ELSE {})
                  /\ IF q = Null \/ q.text.s = <<>>
                     THEN Fail(Msg("Prep error: missing question.", <<>>))
                     ELSE \E typed \in Inputs :
                            IF loop_i = NodeTurns
                            THEN Fail(Msg("Prep: too many turns without completion.", <<>>))
                            ELSE /\ heap' = Rebind
                                 /\ updated_profile' = 1
                                 /\ turn' = NoTurn
                                 /\ last_question_id' = q.id
                                 /\ last_user_answer' = Str(Strip(typed))
                                 /\ node_profile' = ip
                                 /\ disk' = d1
                                 /\ state' = st
                                 /\ loop_i' = loop_i + 1
                                 /\ pc' = "call"
                                 /\ UNCHANGED <<agent, profile_in, answered_ids, node>>
             [] response.action = "CLARIFY" ->
                  /\ after_error' = Noted(IF saved THEN {"write"} ELSE {})
                  /\ Fail(Msg("Prep: ", response.note_to_user.s))
             [] response.action = "SUGGEST" ->
                  /\ after_error' = Noted({"write"})
                  /\ Plan([summary |-> response.summary,
                           suggestions |-> IF IsList(response.suggestions)
                                           THEN response.suggestions.l ELSE <<>>])
             [] response.action = "END" ->
                  /\ after_error' = Noted({"write"})
                  /\ Plan([summary |-> response.note_to_user, suggestions |-> <<>>])
    /\ UNCHANGED <<completion_mode, api_key, printed, patchVars>>

\* The except clause of scholarship_prep_node.
PrepCatch ==
    /\ agent = "prep" /\ pc = "raised"
    /\ NodeReturn([state EXCEPT !.error = Msg("Scholarship Prep agent failed: ",
                                              Truncate(turn.exc, NodeErrorChars))],
                  disk)
    /\ UNCHANGED <<completion_mode, api_key, after_error, printed, patchVars>>

-----------------------------------------------------------------------------
(* SpecPatch: apply_patch_ops on bounded documents and op lists            *)

MaxPathLen == 3     \* atoms in a path string

PathAtoms == {"a", "b", ".", " "}
DocKeys == {<<"a">>, <<"b">>}

BoundedSeqs(S, n) == UNION {[1..k -> S] : k \in 0..n}

PathStrings == BoundedSeqs(PathAtoms, MaxPathLen)

LeafValues == {Null, Str(<<"x">>)}
Maps(V) == UNION {[K -> V] : K \in SUBSET DocKeys}
InnerValues == LeafValues \cup {Dict(m) : m \in Maps(LeafValues)}
Documents == Maps(InnerValues)

OpValues == {Null, Str(<<"y">>)}
OpEntries ==
    {Op(p, v) : p \in PathStrings, v \in OpValues}
        \cup {Str(<<"x">>), Dict(<<"path">> :> Num(1)), Dict(<<"value">> :> Null)}
\* The engine is run on the empty list and on every one-op list.
OpLists == {<<>>} \cup {<<e>> : e \in OpEntries}

PatchIdle ==
    /\ pcPatch = "idle" /\ dst0 = EmptyMap /\ dst = EmptyMap /\ ops = <<>>
    /\ objs = <<>> /\ merge_patch = Null /\ probe = Null /\ answered = Null
    /\ cand = Null /\ cand_out = Null

AgentIdle == completion_mode = "deep" /\ NoLocals

GraphIdle ==
    /\ node = "none" /\ state = initial_state /\ disk = EmptyDisk
    /\ api_key = TRUE /\ after_error = {} /\ printed = Null

InitPatch ==
    /\ pcPatch = "input"
    /\ dst0 \in Documents
    /\ dst = dst0
    /\ ops \in OpLists
    /\ objs = <<>> /\ merge_patch = Null /\ probe = Null /\ answered = Null
    /\ cand = Null /\ cand_out = Null
    /\ AgentIdle /\ GraphIdle

ApplyPatchOps ==
    /\ pcPatch = "input"
    /\ dst' = apply_patch_ops(dst, ops)
    /\ pcPatch' = "applied"
    /\ UNCHANGED <<dst0, ops, objs, merge_patch, probe, answered, cand, cand_out,
                   agentVars, graphVars>>

vars == <<patchVars, agentVars, graphVars>>

NextPatch == ApplyPatchOps

SpecPatch == InitPatch /\ [][NextPatch]_vars

-----------------------------------------------------------------------------
(* SpecEngine: an op list applied and applied again, deep_merge, and the   *)
(* answered predicates, on bounded inputs                                  *)

\* set_by_path stores the op's value itself, not a copy: a mapping that is
\* the value of ops[i] becomes a node of the document, and a later write
\* through that node changes the op's value too.  The node is the record
\* [t |-> "ref", i |-> i]; its content is objs[i].

\* A mutant of SetPartsShared: every intermediate node is replaced by a new
\* mapping.
RECURSIVE SetPartsSharedFresh(_, _, _, _)
SetPartsSharedFresh(objects, d, parts, val) ==
    IF Len(parts) = 1 THEN [d |-> DictPut(d, parts[1], val), objs |-> objects]
    ELSE LET r == SetPartsSharedFresh(objects, EmptyMap, Tail(parts), val)
         IN  [d |-> DictPut(d, parts[1], Dict(r.d)), objs |-> r.objs]

\* The loop and the final assignment of set_by_path on the mapping d, with
\* the op values that are shared between the list and the document.
RECURSIVE SetPartsShared(_, _, _, _)
SetPartsShared(objects, d, parts, val) ==
    IF Len(parts) = 1 THEN [d |-> DictPut(d, parts[1], val), objs |-> objects]
    ELSE LET key == parts[1]
             cur == DictGet(d, key)
         IN  IF cur.t = "ref"
             THEN LET r == SetPartsShared(objects, objects[cur.i], Tail(parts), val)
                  IN  [d |-> d, objs |-> [r.objs EXCEPT ![cur.i] = r.d]]
             ELSE LET child == IF key \in DOMAIN d /\ IsDict(cur) THEN cur.d ELSE EmptyMap
                      r == SetPartsShared(objects, child, Tail(parts), val)
                  IN  [d |-> DictPut(d, key, Dict(r.d)), objs |-> r.objs]

\* A mutant of ApplyOpsShared: an entry that is not a dict, or whose path is
\* not a string or is blank, ends the loop.
RECURSIVE ApplyOpsSharedUntilSkipped(_, _, _, _)
ApplyOpsSharedUntilSkipped(objects, d, opList, i) ==
    IF i > Len(opList) THEN [d |-> d, objs |-> objects]
    ELSE LET op == opList[i]
             path == IF IsDict(op) THEN DictGet(op.d, <<"path">>) ELSE Null
             parts == IF IsStr(path) THEN PathParts(Strip(path.s)) ELSE <<>>
             v == IF IsDict(op) THEN DictGet(op.d, <<"value">>) ELSE Null
         IN  IF ~IsStr(path) \/ Strip(path.s) = <<>> THEN [d |-> d, objs |-> objects]
             ELSE LET r == IF parts = <<>> THEN [d |-> d, objs |-> objects]
                           ELSE SetPartsShared(objects, d, parts,
                                               IF IsDict(v) THEN [t |-> "ref", i |-> i] ELSE v)
                  IN  ApplyOpsSharedUntilSkipped(r.objs, r.d, opList, i + 1)

\* A mutant of ApplyOpsShared: the list is walked from its last op to its
\* first.
RECURSIVE ApplyOpsSharedBackwards(_, _, _, _)
ApplyOpsSharedBackwards(objects, d, opList, i) ==
    IF i > Len(opList) THEN [d |-> d, objs |-> objects]
    ELSE LET j == Len(opList) + 1 - i
             op == opList[j]
             path == IF IsDict(op) THEN DictGet(op.d, <<"path">>) ELSE Null
             parts == IF IsStr(path) THEN PathParts(Strip(path.s)) ELSE <<>>
             v == IF IsDict(op) THEN DictGet(op.d, <<"value">>) ELSE Null
             r == IF parts = <<>> THEN [d |-> d, objs |-> objects]
                  ELSE SetPartsShared(objects, d, parts, IF IsDict(v) THEN [t |-> "ref", i |-> j] ELSE v)
         IN  ApplyOpsSharedBackwards(r.objs, r.d, opList, i + 1)

\* apply_patch_ops(dst, ops) from op i on: an entry that is not a dict, a
\* path that is not a string and a blank path are skipped, and so is a path
\* without a non-empty segment (set_by_path returns at once).
RECURSIVE ApplyOpsShared(_, _, _, _)
ApplyOpsShared(objects, d, opList, i) ==
    IF i > Len(opList) THEN [d |-> d, objs |-> objects]
    ELSE LET op == opList[i]
             path == IF IsDict(op) THEN DictGet(op.d, <<"path">>) ELSE Null
             parts == IF IsStr(path) THEN PathParts(Strip(path.s)) ELSE <<>>
             v == IF IsDict(op) THEN DictGet(op.d, <<"value">>) ELSE Null
             r == IF parts = <<>> THEN [d |-> d, objs |-> objects]
                  ELSE SetPartsShared(objects, d, parts, IF IsDict(v) THEN [t |-> "ref", i |-> i] ELSE v)
         IN  ApplyOpsShared(r.objs, r.d, opList, i + 1)

\* The value a node of the document denotes, the shared mappings read as
\* they are now.
RECURSIVE Plain(_, _)
Plain(objects, v) ==
    CASE v.t = "ref"  -> Plain(objects, Dict(objects[v.i]))
      [] v.t = "dict" -> Dict([k \in DOMAIN v.d |-> Plain(objects, v.d[k])])
      [] OTHER        -> v

\* A mutant of deep_merge: a mapping in the patch replaces what is there.
deep_merge_shallow(d, p) ==
    LET pm == IF IsDict(p) THEN p.d ELSE EmptyMap
    IN  [k \in DOMAIN d \cup DOMAIN pm |-> IF k \in DOMAIN pm THEN pm[k] ELSE d[k]]

\* deep_merge(dst, patch); (patch or {}) makes None an empty patch.
RECURSIVE deep_merge(_, _)
deep_merge(d, p) ==
    LET pm == IF IsDict(p) THEN p.d ELSE EmptyMap
    IN  [k \in DOMAIN d \cup DOMAIN pm |->
            IF k \notin DOMAIN pm THEN d[k]
            ELSE IF IsDict(pm[k]) /\ IsDict(DictGet(d, k))
                 THEN Dict(deep_merge(d[k].d, pm[k]))
                 ELSE pm[k]]

MaxOps == 2         \* ops in a list that is applied twice

\* The runs: a list of up to MaxOps entries on a document, a patch merged
\* into a document, a value given to the answered predicates.
InitEngine ==
    /\ LET paths == {<<"a">>, <<"b">>, <<"a", ".", "b">>, <<" ", "a", " ">>,
                     <<"a", ".", ".", "b">>, <<"a", ".", "b", ".", "a">>,
                     <<>>, <<" ">>, <<".">>}
           values == {Null, Str(<<"y">>), Dict(<<"b">> :> Str(<<"z">>))}
           entries == {Op(q, v) : q \in paths, v \in values}
                          \cup {Str(<<"x">>), Dict(<<"path">> :> Num(1)),
                                Dict(<<"value">> :> Str(<<"y">>))}
           docs == {EmptyMap, <<"a">> :> Str(<<"x">>),
                    <<"a">> :> Dict(<<"b">> :> Str(<<"x">>)),
                    (<<"a">> :> Dict((<<"a">> :> Str(<<"x">>)) @@ (<<"b">> :> Null)))
                        @@ (<<"b">> :> Str(<<"x">>)),
                    <<"a">> :> Dict((<<"a">> :> Str(<<"x">>))
                                    @@ (<<"b">> :> Dict(<<"b">> :> Str(<<"x">>))))}
           flat == {Null, Str(<<>>), Str(<<" ">>), Str(<<"Skip">>), Num(0),
                    Bool(FALSE), List(<<>>), List(<<Str(<<"x">>)>>), Dict(EmptyMap)}
           nested == {Dict(m) : m \in UNION {[K -> flat] : K \in SUBSET {<<"a">>, <<"b">>}}}
       IN  \/ /\ pcPatch = "input"
              /\ dst0 \in docs
              /\ ops \in BoundedSeqs(entries, MaxOps)
              /\ objs = [i \in DOMAIN ops |->
                            IF IsDict(ops[i]) /\ IsDict(DictGet(ops[i].d, <<"value">>))
                            THEN ops[i].d[<<"value">>].d ELSE EmptyMap]
              /\ merge_patch = Null /\ probe = Null
           \/ /\ pcPatch = "merge"
              /\ dst0 \in Documents
              /\ merge_patch \in {Null} \cup {Dict(m) : m \in Documents}
              /\ ops = <<>> /\ objs = <<>> /\ probe = Null
           \/ /\ pcPatch = "classify"
              /\ probe \in flat \cup nested \cup {Dict(<<"a">> :> n) : n \in nested}
              /\ dst0 = EmptyMap /\ ops = <<>> /\ objs = <<>> /\ merge_patch = Null
    /\ dst = dst0
    /\ answered = Null
    /\ cand = Null /\ cand_out = Null
    /\ AgentIdle /\ GraphIdle

\* apply_patch_ops(dst, ops), called on the same document and the same list
\* up to two times.
ApplyList ==
    /\ pcPatch \in {"input", "applied"}
    /\ LET r == ApplyOpsShared(objs, dst, ops, 1)
       IN  dst' = r.d /\ objs' = r.objs
    /\ pcPatch' = IF pcPatch = "input" THEN "applied" ELSE "reapplied"
    /\ UNCHANGED <<dst0, ops, merge_patch, probe, answered, cand, cand_out,
                   agentVars, graphVars>>

\* deep_merge(dst, patch)
DeepMerge ==
    /\ pcPatch = "merge"
    /\ dst' = deep_merge(dst, merge_patch)
    /\ pcPatch' = "merged"
    /\ UNCHANGED <<dst0, ops, objs, merge_patch, probe, answered, cand, cand_out,
                   agentVars, graphVars>>

\* The three copies of the answered predicate on one value.
Classify ==
    /\ pcPatch = "classify"
    /\ answered' = [intake |-> _is_answered(probe), scholarships |-> _is_set(probe),
                    prep |-> _is_set(probe)]
    /\ pcPatch' = "classified"
    /\ UNCHANGED <<dst0, dst, ops, objs, merge_patch, probe, cand, cand_out,
                   agentVars, graphVars>>

SpecEngine == InitEngine /\ [][ApplyList \/ DeepMerge \/ Classify]_vars

-----------------------------------------------------------------------------
(* SpecMerged: the intake profile combined with the stored scholarship     *)
(* sub-profile, as scholarships_node, scholarship_prep_node and the CLIs   *)
(* do it before the first turn                                             *)

\* The profiles intake leaves: the template with some fields answered.
IntakeProfiles ==
    {[new_profile EXCEPT ![<<"us_only">>] = u,
                         ![<<"sat">>] = Dict((<<"status">> :> st) @@ (<<"math">> :> mt))] :
        u \in {Null, Bool(TRUE)}, st \in {Null, Skip}, mt \in {Null, Num(5)}}

\* The ops scholarships_node has applied to the sub-profile and saved: the
\* answers to gating questions and ops of the oracle, which name any path.
StoredOps ==
    {Op(<<"scholarships", ".", "student_level">>, Yes),
     Op(<<"scholarships", ".", "citizenship">>, Yes),
     Op(<<"sat", ".", "status">>, Yes),
     Op(<<"us_only">>, Bool(FALSE))}

InitMerged ==
    /\ pcPatch = "combine"
    /\ dst0 \in IntakeProfiles
    /\ ops \in BoundedSeqs(StoredOps, MaxOps)
    /\ dst = EmptyMap /\ objs = <<>>
    /\ merge_patch = Null /\ probe = Null /\ answered = Null
    /\ cand = Null /\ cand_out = Null
    /\ AgentIdle /\ GraphIdle

\* The sub-profile is what apply_patch_ops made of {} with the saved ops;
\* merged = dict(intake_profile); merged.update(scholarships_profile).
CombineProfiles ==
    /\ pcPatch = "combine"
    /\ cand' = Dict(apply_patch_ops(EmptyMap, ops))
    /\ dst' = Merged(dst0, apply_patch_ops(EmptyMap, ops))
    /\ pcPatch' = "combined"
    /\ UNCHANGED <<dst0, ops, objs, merge_patch, probe, answered, cand_out,
                   agentVars, graphVars>>

SpecMerged == InitMerged /\ [][CombineProfiles]_vars

-----------------------------------------------------------------------------
(* SpecDeadline: the deadline of one candidate, and _parse_date_str on     *)
(* bounded date texts                                                      *)

\* The runs: one candidate through the body of the verification loop, and one
\* date text through _parse_date_str, the result parsed once more.
InitDeadline ==
    /\ LET named == {pre \o <<mo, " ", d>> \o suffix \o sep \o <<y>> :
                        pre \in {<<>>, <<"by", " ">>},
                        mo \in {"March", "Feb", "SEPT"},
                        d \in {"3", "03", "29", "30", "003"},
                        suffix \in {<<>>, <<"rd">>},
                        sep \in {<<",", " ">>, <<" ", ",">>, <<" ">>},
                        y \in {"2026", "2024", "20261", "26", "0000"}}
           slashed == {pre \o <<mo, "/", d, "/", y>> \o post :
                          pre \in {<<>>, <<" ">>},
                          mo \in {"3", "03", "2", "13", "0"},
                          d \in {"3", "29", "30", "45"},
                          y \in {"26", "24", "2026", "026", "126", "6", "20261"},
                          post \in {<<>>, <<"th">>}}
           dashed == {pre \o <<y, "-", mo, "-", d>> :
                         pre \in {<<>>, <<" ">>, <<"by", " ">>},
                         y \in {"2026", "26", "0126"},
                         mo \in {"03", "3", "13"},
                         d \in {"03", "45", "3"}}
           other == {<<>>, <<" ">>, <<"soon">>,
                     <<"Feb", " ", "30", ",", " ", "2026", " ", "3", "/", "3", "/", "26">>}
           links == {Str(<<"https://", "ok">>), Str(<<"http://", "late">>),
                     Str(<<"https://", "cut">>), Str(<<"https://", "bare">>),
                     Str(<<"http://", "gone">>), Str(<<"https://", "down">>),
                     Str(<<"not-a-url">>)}
           supplied == {Null, Str(<<>>), Str(<<"soon">>),
                        Str(<<"March", " ", "3", "rd", ",", " ", "2026">>),
                        Str(<<"3", "/", "3", "/", "24">>),
                        Str(<<"2026", "-", "13", "-", "45">>),
                        Str(<<"Feb", " ", "30", ",", " ", "2026">>)}
       IN  \/ /\ pcPatch = "candidate"
              /\ cand \in [link : links, deadline : supplied]
           \/ /\ pcPatch = "text"
              /\ cand \in {Str(s) : s \in named \cup slashed \cup dashed \cup other}
    /\ cand_out = Null
    /\ dst0 = EmptyMap /\ dst = EmptyMap /\ ops = <<>> /\ objs = <<>>
    /\ merge_patch = Null /\ probe = Null /\ answered = Null
    /\ AgentIdle /\ GraphIdle

\* The body of the verification loop on the candidate: the entry it appends,
\* if any, and the requests it makes.
NormaliseCandidate ==
    /\ pcPatch = "candidate"
    /\ cand_out' = [verified |-> Verified(<<cand>>), probes |-> ProbesOf(<<cand>>),
                    fetches |-> FetchesOf(<<cand>>)]
    /\ pcPatch' = "normalised"
    /\ UNCHANGED <<dst0, dst, ops, objs, merge_patch, probe, answered, cand,
                   agentVars, graphVars>>

\* _parse_date_str on the text, then on what it returned.
ParseDateStr ==
    /\ \/ /\ pcPatch = "text"
          /\ cand_out' = _parse_date_str(cand.s)
          /\ pcPatch' = "parsed"
       \/ /\ pcPatch = "parsed" /\ cand_out # Null
          /\ cand_out' = _parse_date_str(cand_out.s)
          /\ pcPatch' = "reparsed"
    /\ UNCHANGED <<dst0, dst, ops, objs, merge_patch, probe, answered, cand,
                   agentVars, graphVars>>

SpecDeadline == InitDeadline /\ [][NormaliseCandidate \/ ParseDateStr]_vars

-----------------------------------------------------------------------------
(* The store files as they lie on disk, and the code that reads them       *)

\* What a store file can be: not there, a text json.load rejects, or a text
\* json.load reads as the value v.
FileMissing == [t |-> "missing"]
FileMalformed == [t |-> "malformed"]
FileHolding(v) == [t |-> "json", v |-> v]


\* bool(v)
Truthy(v) ==
    CASE v.t = "null" -> FALSE
      [] v.t = "bool" -> v.b
      [] v.t = "num" -> v.n # 0
      [] v.t = "str" -> v.s # <<>>
      [] v.t = "list" -> v.l # <<>>
      [] v.t = "dict" -> DOMAIN v.d # {}

\* json.load(f) on a file that exists.
json_load(file) ==
    IF file = FileMalformed THEN Raised("JSONDecodeError") ELSE Returned(file.v)

\* files_to_load of load_student_context, in its order.
files_to_load ==
    <<"intake_profiles.json", "advisor_results.json", "cv_review_results.json",
      "scholarship_recommendations.json", "prep_suggestions.json",
      "scholarships_profiles.json">>

\* filename.replace(".json", "")
key_name(filename) ==
    LET stems == ("intake_profiles.json" :> "intake_profiles")
                 @@ ("advisor_results.json" :> "advisor_results")
                 @@ ("cv_review_results.json" :> "cv_review_results")
                 @@ ("scholarship_recommendations.json" :> "scholarship_recommendations")
                 @@ ("prep_suggestions.json" :> "prep_suggestions")
                 @@ ("scholarships_profiles.json" :> "scholarships_profiles")
    IN  stems[filename]

\* A mutant of ContextEntry: a file that is not there counts as one without
\* the client.
ContextEntryOfEmptyFile(file, client_id) ==
    LET full_data == IF file = FileMissing THEN Returned(Dict(EmptyMap))
                     ELSE json_load(file)
    IN  IF full_data.t = "raised" THEN Returned(Str(<<"Error reading file.">>))
        ELSE IF ~IsDict(full_data.v) THEN Raised("AttributeError")
        ELSE LET user_data == DictGet(full_data.v.d, client_id)
             IN  Returned(IF Truthy(user_data) THEN user_data
                          ELSE Str(<<"No data found for this user.">>))

\* The body of the loop of load_student_context for one file: what it puts
\* under the file's key, or the exception it does not catch (full_data.get on
\* a value that is no dict; only json.JSONDecodeError is caught).
ContextEntry(file, client_id) ==
    IF file = FileMissing THEN Returned(Str(<<"File not generated yet.">>))
    ELSE LET full_data == json_load(file)
         IN  IF full_data.t = "raised" THEN Returned(Str(<<"Error reading file.">>))
             ELSE IF ~IsDict(full_data.v) THEN Raised("AttributeError")
             ELSE LET user_data == DictGet(full_data.v.d, client_id)
                  IN  Returned(IF Truthy(user_data) THEN user_data
                               ELSE Str(<<"No data found for this user.">>))

\* The loop of load_student_context from file i on.
RECURSIVE LoadContextFrom(_, _, _, _)
LoadContextFrom(files, client_id, i, aggregated_data) ==
    IF i > Len(files_to_load) THEN Returned(Dict(aggregated_data))
    ELSE LET filename == files_to_load[i]
             got == ContextEntry(files[filename], client_id)
         IN  IF got.t = "raised" THEN got
             ELSE LoadContextFrom(files, client_id, i + 1,
                                  (<<key_name(filename)>> :> got.v) @@ aggregated_data)

\* load_student_context(client_id, data_dir), files being the content of
\* data_dir: the dict it passes to json.dumps, or the exception.
load_student_context(files, client_id) == LoadContextFrom(files, client_id, 1, EmptyMap)

\* _load_from_disk(filename, client_id) of graph.py on the file itself:
\* whatever goes wrong inside the try gives None.
LoadFromDiskFile(file, client_id) ==
    IF file = FileMissing THEN Returned(Null)
    ELSE LET data == json_load(file)
         IN  IF data.t = "raised" \/ ~IsDict(data.v) THEN Returned(Null)
             ELSE Returned(DictGet(data.v.d, client_id))

\* _save_to_disk(filename, client_id, data) of graph.py on the file itself:
\* how the call ends and the file it leaves.  The read is inside the try, the
\* assignment all_data[client_id] = data is not.
SaveToDiskFile(file, client_id, data) ==
    LET loaded == IF file = FileMissing THEN Returned(Dict(EmptyMap)) ELSE json_load(file)
        all_data == IF loaded.t = "raised" THEN Dict(EmptyMap) ELSE loaded.v
    IN  IF ~IsDict(all_data) THEN [out |-> Raised("TypeError"), file |-> file]
        ELSE [out |-> Returned(Null),
              file |-> FileHolding(Dict((client_id :> data) @@ all_data.d))]

\* _load_all() of JsonFileProfileStore and of JsonFileScholarshipStore.
_load_all(file) ==
    IF file = FileMissing THEN Returned(Dict(EmptyMap)) ELSE json_load(file)

\* JsonFileProfileStore.get_profile(client_id)
JsonFileProfileStore_get_profile(file, client_id) ==
    LET data == _load_all(file)
    IN  IF data.t = "raised" THEN [out |-> data, file |-> file]
        ELSE IF ~IsDict(data.v) THEN [out |-> Raised("TypeError"), file |-> file]
        ELSE IF client_id \in DOMAIN data.v.d
             THEN [out |-> Returned(data.v.d[client_id]), file |-> file]
        ELSE [out |-> Returned(Dict(new_profile)),
              file |-> FileHolding(Dict((client_id :> Dict(new_profile)) @@ data.v.d))]

\* JsonFileProfileStore.update_profile(client_id, profile_patch); the entry
\* of the client is a dict or None here.
JsonFileProfileStore_update_profile(file, client_id, profile_patch) ==
    LET data == _load_all(file)
    IN  IF data.t = "raised" THEN [out |-> data, file |-> file]
        ELSE IF ~IsDict(data.v) THEN [out |-> Raised("AttributeError"), file |-> file]
        ELSE LET stored == DictGet(data.v.d, client_id)
                 profile == IF Truthy(stored) THEN stored.d ELSE new_profile
                 patched == Dict(apply_patch_ops(profile, profile_patch))
             IN  [out |-> Returned(patched),
                  file |-> FileHolding(Dict((client_id :> patched) @@ data.v.d))]

\* JsonFileScholarshipStore.get_profile(client_id)
JsonFileScholarshipStore_get_profile(file, client_id) ==
    LET data == _load_all(file)
    IN  IF data.t = "raised" THEN [out |-> data, file |-> file]
        ELSE IF ~IsDict(data.v) THEN [out |-> Raised("AttributeError"), file |-> file]
        ELSE LET stored == DictGet(data.v.d, client_id)
             IN  [out |-> Returned(IF Truthy(stored) THEN stored ELSE Dict(EmptyMap)),
                  file |-> file]

\* JsonFileScholarshipStore.update_profile(client_id, patch_ops)
JsonFileScholarshipStore_update_profile(file, client_id, patch_ops) ==
    LET data == _load_all(file)
    IN  IF data.t = "raised" THEN [out |-> data, file |-> file]
        ELSE IF ~IsDict(data.v) THEN [out |-> Raised("AttributeError"), file |-> file]
        ELSE LET stored == DictGet(data.v.d, client_id)
                 profile == IF Truthy(stored) THEN stored.d ELSE EmptyMap
                 patched == Dict(apply_patch_ops(profile, patch_ops))
             IN  [out |-> Returned(patched),
                  file |-> FileHolding(Dict((client_id :> patched) @@ data.v.d))]

-----------------------------------------------------------------------------
(* SpecStores: the readers on store files of every kind                    *)

\* The client asked about, another client, and a stored document.
ClientId == <<"c1">>
OtherId == <<"c2">>
StoredDoc == Dict(<<"us_only">> :> Str(<<"No">>))

\* The files load_student_context is run on, and the files the other readers
\* are: the second set has a file holding null and a null entry as well.
ContextFiles ==
    {FileMissing, FileMalformed, FileHolding(List(<<>>)),
     FileHolding(Dict(OtherId :> StoredDoc)),
     FileHolding(Dict((ClientId :> StoredDoc) @@ (OtherId :> StoredDoc))),
     FileHolding(Dict(ClientId :> Dict(EmptyMap)))}
ReaderFiles ==
    ContextFiles \cup {FileHolding(Null), FileHolding(Dict(EmptyMap)),
                       FileHolding(Dict(ClientId :> Null))}

\* The patches update_profile is called with.
StorePatches ==
    {<<>>, <<Dict((<<"path">> :> Str(<<"us_only">>)) @@ (<<"value">> :> Str(<<"Yes">>)))>>}

InitStores ==
    /\ \/ /\ pcPatch = "stores"
          /\ cand \in [StoreFiles -> ContextFiles]
       \/ /\ pcPatch = "file"
          /\ cand \in ReaderFiles
    /\ cand_out = Null
    /\ dst0 = EmptyMap /\ dst = EmptyMap /\ ops = <<>> /\ objs = <<>>
    /\ merge_patch = Null /\ probe = Null /\ answered = Null
    /\ AgentIdle /\ GraphIdle

\* GeneralChatAgent.load_student_context on the data directory.
LoadStudentContext ==
    /\ pcPatch = "stores"
    /\ cand_out' = load_student_context(cand, ClientId)
    /\ pcPatch' = "context"
    /\ UNCHANGED <<dst0, dst, ops, objs, merge_patch, probe, answered, cand,
                   agentVars, graphVars>>

\* One of the six calls that read a store file, on the file.
StoreRead ==
    /\ pcPatch = "file"
    /\ \/ cand_out' = [op |-> "_load_from_disk", file |-> cand,
                       out |-> LoadFromDiskFile(cand, ClientId)]
       \/ cand_out' = [op |-> "_save_to_disk"]
                          @@ SaveToDiskFile(cand, ClientId, StoredDoc)
       \/ cand_out' = [op |-> "JsonFileProfileStore.get_profile"]
                          @@ JsonFileProfileStore_get_profile(cand, ClientId)
       \/ \E p \in StorePatches :
              cand_out' = [op |-> "JsonFileProfileStore.update_profile"]
                              @@ JsonFileProfileStore_update_profile(cand, ClientId, p)
       \/ cand_out' = [op |-> "JsonFileScholarshipStore.get_profile"]
                          @@ JsonFileScholarshipStore_get_profile(cand, ClientId)
       \/ \E p \in StorePatches :
              cand_out' = [op |-> "JsonFileScholarshipStore.update_profile"]
                              @@ JsonFileScholarshipStore_update_profile(cand, ClientId, p)
    /\ pcPatch' = "read"
    /\ UNCHANGED <<dst0, dst, ops, objs, merge_patch, probe, answered, cand,
                   agentVars, graphVars>>

SpecStores == InitStores /\ [][LoadStudentContext \/ StoreRead]_vars

-----------------------------------------------------------------------------
(* SpecSaves: two clients, each with one turn at a time, saving to the     *)
(* same store file; a save is a read of the file, then open("w"), then     *)
(* json.dump                                                               *)

Clients == {ClientId, OtherId}

MaxSaves == 2       \* saves a client makes

\* What the k-th turn of a client has to store: the data of _save_to_disk,
\* the patch of update_profile.
DataOfTurn(k) == Dict(<<"turn">> :> Num(k))
PatchOfTurn(k) == <<Op(<<"turn">>, Num(k))>>

\* The calls that save: _save_to_disk of graph.py and update_profile of the
\* two store classes.  Each gives how the call ends and the content it dumps.
SaveCalls == {"_save_to_disk", "JsonFileProfileStore.update_profile",
              "JsonFileScholarshipStore.update_profile"}

SaveCall(call, file, client_id, k) ==
    CASE call = "_save_to_disk" ->
             SaveToDiskFile(file, client_id, DataOfTurn(k))
      [] call = "JsonFileProfileStore.update_profile" ->
             JsonFileProfileStore_update_profile(file, client_id, PatchOfTurn(k))
      [] call = "JsonFileScholarshipStore.update_profile" ->
             JsonFileScholarshipStore_update_profile(file, client_id, PatchOfTurn(k))

\* A client between saves; latest is the entry its last finished save wrote.
Resting(latest) == [pc |-> "idle", all_data |-> Null, saves |-> 0, latest |-> latest]

\* The entry of a client in a file, None when there is none to read.
EntryIn(file, client_id) ==
    IF file.t = "json" /\ IsDict(file.v) THEN DictGet(file.v.d, client_id) ELSE Null

InitSaves ==
    /\ pcPatch = "saves"
    /\ cand \in {FileMissing,
                 FileHolding(Dict((ClientId :> DataOfTurn(0)) @@ (OtherId :> DataOfTurn(0))))}
    /\ cand_out = [c \in Clients |-> Resting(EntryIn(cand, c))]
    /\ dst0 = EmptyMap /\ dst = EmptyMap /\ ops = <<>> /\ objs = <<>>
    /\ merge_patch = Null /\ probe = Null /\ answered = Null
    /\ AgentIdle /\ GraphIdle

\* The read of the file and the change in memory: all_data[client_id] = data.
\* json.load on a file another save has open for writing finds no text.
SaveRead(c) ==
    /\ pcPatch = "saves"
    /\ cand_out[c].pc = "idle" /\ cand_out[c].saves < MaxSaves
    /\ \E call \in SaveCalls :
         LET r == SaveCall(call, cand, c, cand_out[c].saves + 1)
         IN  cand_out' = [cand_out EXCEPT ![c] =
                 IF r.out.t = "raised" THEN [@ EXCEPT !.pc = "raised"]
                 ELSE [@ EXCEPT !.pc = "loaded", !.all_data = r.file]]
    /\ UNCHANGED <<pcPatch, dst0, dst, ops, objs, merge_patch, probe, answered,
                   cand, agentVars, graphVars>>

\* path.open("w"): the file is there and empty.
SaveOpen(c) ==
    /\ pcPatch = "saves"
    /\ cand_out[c].pc = "loaded"
    /\ cand' = FileMalformed
    /\ cand_out' = [cand_out EXCEPT ![c].pc = "opened"]
    /\ UNCHANGED <<pcPatch, dst0, dst, ops, objs, merge_patch, probe, answered,
                   agentVars, graphVars>>

\* json.dump(all_data, f) and the end of the call.
SaveDump(c) ==
    /\ pcPatch = "saves"
    /\ cand_out[c].pc = "opened"
    /\ cand' = cand_out[c].all_data
    /\ cand_out' = [cand_out EXCEPT ![c] =
           [pc |-> "idle", all_data |-> Null, saves |-> @.saves + 1,
            latest |-> EntryIn(@.all_data, c)]]
    /\ UNCHANGED <<pcPatch, dst0, dst, ops, objs, merge_patch, probe, answered,
                   agentVars, graphVars>>

NextSaves == \E c \in Clients : SaveRead(c) \/ SaveOpen(c) \/ SaveDump(c)

SpecSaves == InitSaves /\ [][NextSaves]_vars

-----------------------------------------------------------------------------
(* SpecIntake: an intake session, as intake_form_node runs it              *)

InitIntake ==
    /\ node = "intake_form"
    /\ completion_mode \in {"deep", "core"}
    /\ NoLocals
    /\ state = initial_state /\ disk = EmptyDisk
    /\ api_key = TRUE /\ after_error = {} /\ printed = Null
    /\ PatchIdle

\* The responses in which the oracle asks about the first deep path or sends
\* no question: those of the forced call here, and all of them when the
\* agents' sessions are taken together.
AgentsIntakeResponses(n) ==
    {r \in IntakeResponses(n) : r.question \in {Null, Question(DEEP_PATHS_ORDER[1])}}
        \cup UnparseableResponses

\* One intake session; the oracle of the first call asks about one of the
\* first two deep paths or sends no question.
NextIntake ==
    \/ IntakeStart
    \/ IntakeFirstCallOn({r \in IntakeResponses(1) :
                              r.question \in {Null, Question(DEEP_PATHS_ORDER[1]),
                                              Question(DEEP_PATHS_ORDER[2])}}
                             \cup UnparseableResponses)
    \/ IntakeForcedCallOn(AgentsIntakeResponses(2))
    \/ IntakeCallerOn(IntakeInputs)
    \/ IntakeCrash

SpecIntake == InitIntake /\ [][NextIntake]_vars

-----------------------------------------------------------------------------
(* SpecQuestioning: the intake loop in deep mode with a user who answers   *)
(* every question and an oracle that asks the path it is directed to       *)

\* What input("You: ") returns from a user who never leaves.
IntakeAnswers == {<<" ", "Skip">>, <<"Yes">>, <<>>}

\* The first call sends the oracle unfilled_deep_paths and the policy "ask
\* the next unfilled_deep_paths item": the oracle asks the head of that list,
\* or tries to finish, with any patch.
DirectedFirstResponses ==
    {r \in IntakeResponses(1) :
        \/ r.action = "FINISH" /\ r.question = Null
        \/ /\ UnfilledDeep(heap[1]) # <<>>
           /\ r.action = "ASK"
           /\ r.question = Question(Head(UnfilledDeep(heap[1])))}

\* The forced call names forced_next: the oracle asks that path.
DirectedForcedResponses ==
    {r \in IntakeResponses(2) :
        r.action = "ASK" /\ r.question = Question(turn.forced_next.s)}

\* The answers are counted up to one more than the paths of the order.
AnswersCounted ==
    IF loop_i <= Len(DEEP_PATHS_ORDER) THEN loop_i + 1 ELSE loop_i

InitQuestioning == InitIntake /\ completion_mode = "deep"

NextQuestioning ==
    \/ IntakeStart
    \/ IntakeFirstCallOn(DirectedFirstResponses)
    \/ IntakeForcedCallOn(DirectedForcedResponses)
    \/ IntakeCallerCounting(IntakeAnswers, AnswersCounted)

SpecQuestioning == InitQuestioning /\ [][NextQuestioning]_vars

\* The loop goes on as long as it can: the user answers, the oracle responds.
SpecQuestioningFair == SpecQuestioning /\ WF_vars(NextQuestioning)

-----------------------------------------------------------------------------
(* SpecSch: an execution of scholarships_node                              *)

\* The profiles an intake that finished leaves in the state.
FinishedProfiles ==
    {[new_profile EXCEPT ![<<"us_only">>] = v] : v \in {Null, Bool(TRUE), Bool(FALSE)}}

\* The client's entry of scholarships_profiles.json: none, or the gating
\* answers of an earlier run.
StoredScholarships ==
    {Null,
     Dict(apply_patch_ops(EmptyMap,
            <<Op(<<"scholarships", ".", "student_level">>, Yes),
              Op(<<"scholarships", ".", "identity_scholarships_opt_in">>, Str(<<"No">>))>>))}

\* The state and the stores as the nodes before scholarships leave them.
AfterCvReview(profile, stored) ==
    /\ state = [initial_state EXCEPT !.profile = Dict(profile),
                                     !.next_node = Str(<<"intake_form">>),
                                     !.advisor_recommendations = Str(<<"result">>),
                                     !.cv_feedback = Str(<<"result">>)]
    /\ disk = [EmptyDisk EXCEPT !["intake_profiles.json"] = Dict(profile),
                                !["advisor_results.json"] = Str(<<"result">>),
                                !["cv_review_results.json"] = Str(<<"result">>),
                                !["scholarships_profiles.json"] = stored]

InitSch ==
    /\ node = "scholarships"
    /\ completion_mode = "deep"
    /\ NoLocals
    /\ \E profile \in FinishedProfiles, stored \in StoredScholarships :
          AfterCvReview(profile, stored)
    /\ api_key \in BOOLEAN /\ after_error = {} /\ printed = Null
    /\ PatchIdle

NextSch ==
    \/ SchStart
    \/ SchTurnOn(SchResponses \cup OracleFailures \cup {ParsedNone})
    \/ SchCallerOn(SchInputs)
    \/ SchCatch

SpecSch == InitSch /\ [][NextSch]_vars

-----------------------------------------------------------------------------
(* An execution of scholarship_prep_node, and SpecAgents                   *)

\* The outcomes of scholarships_node: a stored list, an error after a
\* CLARIFY, or the error for a student who is not US-based.
ScholarshipOutcomes ==
    { [us_only |-> Bool(TRUE), error |-> Null,
       scholarship_list |->
           [recommendations |-> <<[link |-> Str(<<"https://", "ok">>),
                                   deadline |-> Str(<<"2026", "-", "03", "-", "03">>)]>>,
            note_to_user |-> Str(<<"note">>)]],
      [us_only |-> Bool(TRUE), error |-> Msg("Scholarships: ", <<"note">>),
       scholarship_list |-> Null],
      [us_only |-> Bool(FALSE),
       error |-> Msg("Scholarships ended: Student not eligible (US only).", <<>>),
       scholarship_list |-> Null] }

InitPrep ==
    /\ node = "scholarship_prep"
    /\ completion_mode = "deep"
    /\ NoLocals
    /\ \E o \in ScholarshipOutcomes, stored \in StoredScholarships :
         LET profile == [new_profile EXCEPT ![<<"us_only">>] = o.us_only]
         IN  /\ state = [initial_state EXCEPT
                    !.profile = Dict(profile),
                    !.next_node = Str(<<"intake_form">>),
                    !.advisor_recommendations = Str(<<"result">>),
                    !.cv_feedback = Str(<<"result">>),
                    !.scholarship_list = o.scholarship_list,
                    !.error = o.error]
             /\ disk = [EmptyDisk EXCEPT
                    !["intake_profiles.json"] = Dict(profile),
                    !["advisor_results.json"] = Str(<<"result">>),
                    !["cv_review_results.json"] = Str(<<"result">>),
                    !["scholarships_profiles.json"] = stored,
                    !["scholarship_recommendations.json"] = o.scholarship_list]
    /\ api_key \in BOOLEAN /\ after_error = {} /\ printed = Null
    /\ PatchIdle

NextPrep ==
    \/ PrepStart
    \/ PrepTurnOn(PrepResponses \cup OracleFailures \cup {NoParsed})
    \/ PrepCallerOn(PrepInputs)
    \/ PrepCatch

InitAgents == InitIntake \/ InitSch \/ InitPrep

\* The three sessions side by side; the oracle's candidate lists have at most
\* one entry here, SpecSch runs the longer ones.
NextAgents ==
    \/ IntakeStart
    \/ IntakeFirstCallOn(AgentsIntakeResponses(1))
    \/ IntakeForcedCallOn(AgentsIntakeResponses(2))
    \/ IntakeCallerOn(IntakeInputs)
    \/ IntakeCrash
    \/ SchStart
    \/ SchTurnOn({r \in SchResponses : IsList(r.recommendations) => Len(r.recommendations.l) <= 1}
                    \cup OracleFailures \cup {ParsedNone})
    \/ SchCallerOn(SchInputs)
    \/ SchCatch
    \/ NextPrep

SpecAgents == InitAgents /\ [][NextAgents]_vars

-----------------------------------------------------------------------------
(* The other nodes of the graph and its edges                              *)

\* An exception leaves a node that does not catch it: graph.invoke raises.
Crash ==
    /\ node' = "crashed"
    /\ DropLocals
    /\ pc' = "done"
    /\ UNCHANGED <<state, disk>>

\* An oracle call that raises.
Raises == [action |-> "raises"]

\* A mutant of EntryNode: any stored entry routes to general chat.
EntryNodeOnAnyEntry ==
    /\ node = "entry" /\ pc = "idle"
    /\ LET existing_profile == _load_from_disk(disk, "intake_profiles.json")
       IN  IF existing_profile # Null
           THEN NodeReturn([state EXCEPT !.profile = existing_profile,
                                         !.next_node = Str(<<"general_chat">>)], disk)
           ELSE NodeReturn([state EXCEPT !.next_node = Str(<<"intake_form">>)], disk)
    /\ UNCHANGED <<completion_mode, api_key, after_error, printed, patchVars>>

\* entry_node
EntryNode ==
    /\ node = "entry" /\ pc = "idle"
    /\ LET existing_profile == _load_from_disk(disk, "intake_profiles.json")
       IN  IF IsDict(existing_profile) /\ existing_profile.d # EmptyMap
           THEN NodeReturn([state EXCEPT !.profile = existing_profile,
                                         !.next_node = Str(<<"general_chat">>)], disk)
           ELSE NodeReturn([state EXCEPT !.next_node = Str(<<"intake_form">>)], disk)
    /\ UNCHANGED <<completion_mode, api_key, after_error, printed, patchVars>>

\* The parsed AdvisorOutput objects: a list with a college to aim at, and a
\* list without one.
AdvisorResults ==
    {[recommendations |-> <<[category |-> "Target Match"]>>],
     [recommendations |-> <<[category |-> "Safety"]>>]}

\* advisor_node: search_colleges reads the profile before the oracle is
\* called, and raises on a profile that is None.
AdvisorNode ==
    /\ node = "advisor" /\ pc = "idle"
    /\ \/ /\ ~api_key
          /\ Crash
          /\ after_error' = Noted({"run"})
       \/ IF state.profile = Null
          THEN /\ Crash
               /\ after_error' = Noted({"run"})
          ELSE \E out \in AdvisorResults \cup {Raises} :
                 IF out = Raises
                 THEN /\ Crash
                      /\ after_error' = Noted({"run", "oracle"})
                 ELSE /\ NodeReturn([state EXCEPT !.advisor_recommendations = out],
                                    _save_to_disk(disk, "advisor_results.json", out))
                      /\ after_error' = Noted({"run", "oracle", "write"})
    /\ UNCHANGED <<completion_mode, api_key, printed, patchVars>>

\* analyze_cv without a college to aim at.
NoTargetSchools ==
    [strategic_summary |-> Str(<<"No Reach or Target schools found to analyze.">>),
     improvements |-> <<>>]

\* The parsed CVReviewOutput objects.
CvResults ==
    {[strategic_summary |-> Str(<<"summary">>), improvements |-> <<"improvement">>]}

\* cv_review_node
CvReviewNode ==
    /\ node = "cv_review" /\ pc = "idle"
    /\ LET advisor_blob == state.advisor_recommendations
           advisor_recs == IF "recommendations" \in DOMAIN advisor_blob
                           THEN advisor_blob.recommendations ELSE <<>>
           target_schools ==
               SelectSeq(advisor_recs,
                         LAMBDA rec : rec.category \in {"Extreme Reach", "Target Match"})
           Done(result, kinds) ==
               /\ NodeReturn([state EXCEPT !.cv_feedback = result],
                             _save_to_disk(disk, "cv_review_results.json", result))
               /\ after_error' = Noted(kinds)
       IN  \/ /\ ~api_key
              /\ Crash
              /\ after_error' = Noted({"run"})
           \/ IF target_schools = <<>>
              THEN Done(NoTargetSchools, {"run", "write"})
              ELSE \E out \in CvResults \cup {Raises} :
                     IF out = Raises
                     THEN /\ Crash
                          /\ after_error' = Noted({"run", "oracle"})
                     ELSE Done(out, {"run", "oracle", "write"})
    /\ UNCHANGED <<completion_mode, api_key, printed, patchVars>>

\* The replies of the chat oracle.
ChatReplies == {Str(<<"reply">>)}

\* general_chat_node
GeneralChatNode ==
    /\ node = "general_chat" /\ pc = "idle"
    /\ \/ /\ ~api_key
          /\ Crash
          /\ after_error' = Noted({"run"})
       \/ \E out \in ChatReplies \cup {Raises} :
            /\ after_error' = Noted({"run", "oracle"})
            /\ IF out = Raises THEN Crash
               ELSE NodeReturn([state EXCEPT
                                   !.chat_history = @ \o <<Str(<<"query">>), out>>,
                                   !.is_complete = TRUE], disk)
    /\ UNCHANGED <<completion_mode, api_key, printed, patchVars>>

\* The nodes build_college_graph adds.
GraphNodes ==
    {"entry", "intake_form", "advisor", "cv_review", "scholarships",
     "scholarship_prep", "general_chat"}

\* The edges of build_college_graph; route_entry reads next_node.
Successor(n, st) ==
    CASE n = "entry" -> IF st.next_node = Str(<<"general_chat">>)
                        THEN "general_chat" ELSE "intake_form"
      [] n = "intake_form" -> "advisor"
      [] n = "advisor" -> "cv_review"
      [] n = "cv_review" -> "scholarships"
      [] n = "scholarships" -> "scholarship_prep"
      [] n = "scholarship_prep" -> "general_chat"
      [] n = "general_chat" -> "END"

\* The graph hands the state a node returned to the node's successor.
FollowEdge ==
    /\ pc = "done" /\ node \in GraphNodes
    /\ node' = Successor(node, state)
    /\ pc' = "idle"
    /\ UNCHANGED <<agent, completion_mode, heap, updated_profile, profile_in,
                   last_user_answer, last_question_id, turn, answered_ids,
                   state, disk, api_key, node_profile, loop_i, after_error,
                   printed, patchVars>>

\* run_pipeline after graph.invoke returned: an error in the final state is
\* printed behind a mark.
PrintError ==
    /\ node = "END" /\ pc = "idle"
    /\ printed' = IF IsStr(state.error) /\ state.error.s # <<>>
                  THEN Msg("Error: ", state.error.s) ELSE Null
    /\ pc' = "done"
    /\ UNCHANGED <<agent, completion_mode, heap, updated_profile, profile_in,
                   last_user_answer, last_question_id, turn, answered_ids,
                   node, state, disk, api_key, node_profile, loop_i, after_error,
                   patchVars>>

-----------------------------------------------------------------------------
(* SpecGraph: one invocation of the graph by run_pipeline                  *)

\* The store as run_pipeline finds it: a new client, one with a profile, or
\* one whose entry is an empty object.
InitGraph ==
    /\ node = "entry"
    /\ completion_mode = "deep"
    /\ NoLocals
    /\ state = initial_state
    /\ disk \in {EmptyDisk,
                 [EmptyDisk EXCEPT !["intake_profiles.json"] = Dict(new_profile)],
                 [EmptyDisk EXCEPT !["intake_profiles.json"] = Dict(EmptyMap)]}
    /\ api_key \in BOOLEAN /\ after_error = {} /\ printed = Null
    /\ PatchIdle

\* The oracle and the user of an invocation: one response of every kind.
GraphIntakeResponses(n) ==
    {r \in IntakeResponses(n) :
        /\ r.action \in {"ASK", "FINISH", "END_NOT_US"}
        /\ r.question \in {Null, Question(DEEP_PATHS_ORDER[1])}
        /\ r.profile_patch = <<>>} \cup UnparseableResponses

GraphSchResponses ==
    {r \in SchResponses :
        /\ r.profile_patch = <<>>
        /\ \/ r.action = "ASK" /\ r.question = ExtraQuestion /\ r.recommendations = Null
           \/ r.action = "CLARIFY" /\ r.question = Null /\ r.recommendations = Null
           \/ /\ r.action = "RECOMMEND"
              /\ r.recommendations =
                    List(<<[link |-> Str(<<"https://", "ok">>), deadline |-> Null]>>)}
        \cup {[action |-> "raises", text |-> Chars(NodeErrorChars + 1)]}

GraphPrepResponses ==
    {r \in PrepResponses :
        /\ r.profile_patch = <<>>
        /\ r.suggestions # Null
        /\ \/ r.action = "ASK" /\ r.question = PrepExtraQuestion
           \/ r.action \in {"CLARIFY", "SUGGEST"} /\ r.question = Null}
        \cup {[action |-> "raises", text |-> Chars(PrepNoteChars + 1)]}

NextGraph ==
    \/ EntryNode
    \/ IntakeStart
    \/ IntakeFirstCallOn(GraphIntakeResponses(1))
    \/ IntakeForcedCallOn(GraphIntakeResponses(2))
    \/ IntakeCallerOn(IntakeInputs)
    \/ IntakeCrash
    \/ AdvisorNode
    \/ CvReviewNode
    \/ SchStart
    \/ SchTurnOn(GraphSchResponses)
    \/ SchCallerOn({<<" ", "Yes">>})
    \/ SchCatch
    \/ PrepStart
    \/ PrepTurnOn(GraphPrepResponses)
    \/ PrepCallerOn({<<"5">>})
    \/ PrepCatch
    \/ GeneralChatNode
    \/ FollowEdge
    \/ PrintError

SpecGraph == InitGraph /\ [][NextGraph]_vars

-----------------------------------------------------------------------------
(* Claims on the PatchOp engine                                            *)

Incomparable(a, b) == ~IsPrefix(a, b) /\ ~IsPrefix(b, a)

WellFormedOp(op) ==
    IsDict(op) /\ IsStr(DictGet(op.d, <<"path">>))

\* The paths q the frame is observed at, each as _get_by_path reads it: the
\* segments of q.split(".").
QuerySegs == {Split(q) : q \in BoundedSeqs({"a", "b", "."}, MaxPathLen)}

\* The value at every observed path that is incomparable with the segments
\* pSegs is the same in dst as in dst0.
FrameOutside(pSegs) ==
    \A qSegs \in QuerySegs :
        Incomparable(qSegs, pSegs)
            => GetParts(Dict(dst), qSegs) = GetParts(Dict(dst0), qSegs)

\* C8 as stated: applying an op with path p leaves the value at every path q
\* unchanged when, segment by segment, neither of p and q is a prefix of the
\* other.
C8_FrameOnWrittenPath ==
    pcPatch = "applied" =>
        \A i \in 1..Len(ops) :
            WellFormedOp(ops[i]) => FrameOutside(Split(ops[i].d[<<"path">>].s))

\* C8 amended: applying an op with path p leaves the value at every path q
\* unchanged when neither of q and the location p resolves to (p stripped of
\* surrounding blanks, its empty segments dropped) is a prefix of the other.
C8_FrameOnResolvedPath ==
    pcPatch = "applied" =>
        \A i \in 1..Len(ops) :
            WellFormedOp(ops[i])
                => FrameOutside(PathParts(Strip(ops[i].d[<<"path">>].s)))

\* C8 witness: the op a.b was applied under a node a that was not a mapping,
\* the document changed, and the sibling b kept its non-null value.
C8_Witness ==
    /\ pcPatch = "applied"
    /\ Len(ops) = 1
    /\ WellFormedOp(ops[1])
    /\ ops[1].d[<<"path">>].s = <<"a", ".", "b">>
    /\ dst # dst0
    /\ <<"a">> \in DOMAIN dst0 /\ ~IsDict(dst0[<<"a">>])
    /\ _get_by_path(dst0, <<"b">>) # Null
    /\ _get_by_path(dst, <<"b">>) = _get_by_path(dst0, <<"b">>)

-----------------------------------------------------------------------------
(* Claims on the intake turn                                               *)

\* Every deep path is answered or listed in _meta.asked_paths.
Covered(p) ==
    \A i \in 1..Len(DEEP_PATHS_ORDER) :
        \/ _is_answered(_get_by_path(p, DEEP_PATHS_ORDER[i]))
        \/ Str(DEEP_PATHS_ORDER[i]) \in SeqRange(AskedPathsOf(p))

\* C1 as stated: in deep mode, when the first response is FINISH while
\* allow_finish, as computed at the start of the turn, is false, the turn made
\* a second oracle call whose directive names the first unfilled path of the
\* start of the turn, and returned the second response.
C1_ForcedWhenFinishWasDisallowed ==
    (pc = "returned" /\ completion_mode = "deep" /\ turn.first = "FINISH"
        /\ ~turn.allow_finish)
    => /\ turn.calls = 2
       /\ turn.forced_next = Str(turn.unfilled[1])
       /\ turn.response.from_call = 2

\* C1 amended: in deep mode, when the first response is FINISH while a deep
\* path is still unfilled after that response's patch and the asked mark were
\* applied, the turn makes exactly one more oracle call, whose directive names
\* the first such path, and returns the second response; a FINISH after which
\* no path remains is returned without a second call; no third call is made.
C1_ForcedWhenPathRemains ==
    /\ turn.calls <= 2
    /\ pc = "forced" =>
          /\ completion_mode = "deep" /\ turn.calls = 1 /\ turn.first = "FINISH"
          /\ ~Covered(heap[updated_profile])
          /\ turn.forced_next = Str(UnfilledDeep(heap[updated_profile])[1])
    /\ (pc = "returned" /\ completion_mode = "deep" /\ turn.first = "FINISH"
            /\ turn.calls = 1) => Covered(heap[updated_profile])
    /\ (pc = "returned" /\ turn.calls = 2) =>
          /\ turn.first = "FINISH" /\ turn.forced_next # Null
          /\ turn.response.from_call = 2

\* C1 witness: a turn whose first response was FINISH with a path remaining
\* returned the response of its second call.
C1_Witness ==
    /\ pc = "returned" /\ completion_mode = "deep"
    /\ turn.first = "FINISH" /\ turn.calls = 2
    /\ turn.forced_next = Str(<<"us_only">>)
    /\ turn.response.from_call = 2 /\ turn.response.action = "ASK"

\* C2 as stated: in deep mode a turn returns FINISH only if every deep path
\* is answered or asked in the returned profile.
C2_FinishOnlyWhenCovered ==
    (pc = "returned" /\ completion_mode = "deep" /\ turn.response.action = "FINISH")
        => Covered(heap[updated_profile])

\* C2 amended: in deep mode a turn returns FINISH while some deep path is
\* neither answered nor asked in the returned profile only as the response of
\* the forced second call; a FINISH returned from a single oracle call leaves
\* no deep path uncovered.
C2_UncoveredFinishOnlyWhenForced ==
    (pc = "returned" /\ completion_mode = "deep" /\ turn.response.action = "FINISH"
        /\ ~Covered(heap[updated_profile]))
    => (turn.calls = 2 /\ turn.response.from_call = 2)

\* C2 witness: a FINISH returned from a single call, after an answered turn,
\* with every deep path covered.
C2_Witness ==
    /\ pc = "returned" /\ completion_mode = "deep"
    /\ turn.response.action = "FINISH" /\ turn.calls = 1
    /\ ~turn.allow_finish
    /\ Covered(heap[updated_profile])

\* C3: a path that was the last_question_id of a completed turn carrying an
\* answer is not in the unfilled list of any later turn and is not the forced
\* next path of any later turn.
C3_AnsweredNeverUnfilledAgain ==
    \A p \in answered_ids :
        /\ p \notin SeqRange(turn.unfilled)
        /\ turn.forced_next # Str(p)


-----------------------------------------------------------------------------
(* Deterministic questions come before the oracle                          *)

\* The profile a scholarships or prep turn asks its questions on: the
\* caller's profile with the pending answer applied.
AnsweredProfile ==
    apply_patch_ops(profile_in, UserOps(last_question_id, last_user_answer))

\* The positions of the gating questions that are eligible and unanswered.
GatingPending(p) ==
    {i \in DOMAIN GATING_QUESTIONS :
        LET q == GATING_QUESTIONS[i]
        IN  /\ q.depends_on # Null =>
                 _get_by_path(p, q.depends_on.path) = q.depends_on.equals
            /\ ~_is_set(_get_by_path(p, q.id))}

\* The positions of the prep questions that are unanswered.
PrepPending(p) ==
    {i \in DOMAIN PREP_QUESTIONS : ~_is_set(_get_by_path(p, PREP_QUESTIONS[i].id))}

Lowest(S) == CHOOSE i \in S : \A j \in S : i <= j

\* C4: in a scholarships or prep turn that has ended, if an eligible
\* unanswered gating/prep question exists in the profile after the pending
\* answer is applied then the turn made no oracle call (so the oracle is
\* called only when none exists), and a turn that asks without the oracle
\* carries the first such question.
C4_DeterministicBeforeOracle ==
    (agent \in {"scholarships", "prep"} /\ pc \in {"returned", "raised"}) =>
        LET pending == IF agent = "scholarships"
                       THEN GatingPending(AnsweredProfile)
                       ELSE PrepPending(AnsweredProfile)
            ids == IF agent = "scholarships"
                   THEN [i \in DOMAIN GATING_QUESTIONS |-> GATING_QUESTIONS[i].id]
                   ELSE [i \in DOMAIN PREP_QUESTIONS |-> PREP_QUESTIONS[i].id]
        IN  /\ pending # {} => turn.calls = 0
            /\ turn.calls > 0 => pending = {}
            /\ (pc = "returned" /\ turn.calls = 0 /\ turn.response.action = "ASK") =>
                  /\ pending # {}
                  /\ turn.response.question = Question(ids[Lowest(pending)])

\* A scholarships turn in which the pending answer settled the last eligible
\* gating question, so that the oracle was called.
C4_Witness ==
    /\ agent = "scholarships" /\ pc = "returned"
    /\ turn.calls = 1
    /\ turn.user_ops # <<>>
    /\ GatingPending(profile_in) # {}
    /\ GatingPending(AnsweredProfile) = {}


-----------------------------------------------------------------------------
(* What a scholarships turn recommends                                     *)

\* A scholarships turn that has returned after calling the oracle.
SchAnswered ==
    agent = "scholarships" /\ pc = "returned" /\ turn.calls = 1

\* The candidates of the oracle that survive verification, stated on the
\* oracle's answer: none when it carries no list.
Survivors ==
    IF IsList(turn.oracle.recommendations)
    THEN Verified(Take(turn.oracle.recommendations.l, max_recommendations))
    ELSE <<>>

\* C5: a returned scholarships turn with action RECOMMEND carries at least
\* one verified candidate; when the oracle's action is RECOMMEND and no
\* candidate survives verification the returned action is CLARIFY with no
\* question; and the node never stores an empty recommendation list.
C5_RecommendOnlyWithVerified ==
    /\ (agent = "scholarships" /\ pc = "returned"
          /\ turn.response.action = "RECOMMEND") =>
            /\ IsList(turn.response.recommendations)
            /\ turn.response.recommendations.l # <<>>
    /\ (SchAnswered /\ turn.oracle.action = "RECOMMEND" /\ Survivors = <<>>) =>
            /\ turn.response.action = "CLARIFY"
            /\ turn.response.question = Null
    /\ state.scholarship_list # Null =>
            state.scholarship_list.recommendations # <<>>

\* The candidate's link starts with http:// or https:// and its probe
\* returned a status below 400.
Reachable(candidate) ==
    /\ candidate.link.s[1] \in {"http://", "https://"}
    /\ Get(candidate.link.s) \in 1..399

\* The j-th smallest member of a set of positions.
Nth(S, j) == CHOOSE i \in S : Cardinality({k \in S : k <= i}) = j

\* C6: when the oracle supplied a list of candidates, the recommendations a
\* scholarships turn returns are, in their original order, exactly those of
\* the first max_recommendations candidates whose link starts with http://
\* or https:// and whose probe returned a status below 400.
C6_ExactlyTheReachableCandidates ==
    (SchAnswered /\ IsList(turn.oracle.recommendations)) =>
        LET supplied == turn.oracle.recommendations.l
            n == IF Len(supplied) < max_recommendations
                 THEN Len(supplied) ELSE max_recommendations
            keep == {i \in 1..n : Reachable(supplied[i])}
            out == turn.response.recommendations
        IN  /\ IsList(out)
            /\ Len(out.l) = Cardinality(keep)
            /\ \A j \in 1..Len(out.l) : out.l[j].link = supplied[Nth(keep, j)].link

\* The oracle supplied more candidates than the cap; within the cap one with
\* a link that is no URL comes before one that is kept.
C6_Witness ==
    /\ SchAnswered /\ IsList(turn.oracle.recommendations)
    /\ Len(turn.oracle.recommendations.l) > max_recommendations
    /\ turn.oracle.recommendations.l[1].link = Str(<<"not-a-url">>)
    /\ Len(turn.response.recommendations.l) = max_recommendations - 1

-----------------------------------------------------------------------------
(* Copy-on-write                                                           *)

\* C7: once a turn of any of the three agents has called the oracle, has
\* returned or has raised, the caller's profile is what it was at the call.
C7_CallerProfileUntouched ==
    pc \in {"forced", "returned", "raised"} => heap[1] = profile_in

\* A scholarships turn that raised after it applied the pending answer to
\* its own copy.
C7_Witness ==
    /\ agent = "scholarships" /\ pc = "raised"
    /\ turn.user_ops # <<>>
    /\ heap[updated_profile] # profile_in
    /\ heap[1] = profile_in


-----------------------------------------------------------------------------
(* Errors in the pipeline                                                  *)

\* The invocation is over: run_pipeline has looked at the final state, or
\* graph.invoke raised.
InvocationOver == node = "crashed" \/ (node = "END" /\ pc = "done")

\* C9: once a node has returned a state whose error field is set, no later
\* node of the invocation runs, calls the oracle or writes to storage, and
\* when the invocation is over the error string is what was printed.
C9_HaltsOnError ==
    /\ after_error = {}
    /\ (InvocationOver /\ state.error # Null) =>
            printed = Msg("Error: ", state.error.s)

\* The first k characters of a text, stated position by position.
IsHeadOf(piece, text, k) ==
    /\ Len(piece) = (IF Len(text) < k THEN Len(text) ELSE k)
    /\ \A i \in 1..Len(piece) : piece[i] = text[i]

\* C10: when a scholarships or prep agent call has raised, the node's next
\* step returns a state whose error field is the node's prefix followed by
\* the first 160 characters of the exception text, and the node does not
\* crash; and a prep turn whose oracle call failed returns CLARIFY with no
\* question and a note made of a prefix and the first 100 characters of the
\* exception text.
C10_ExceptionsBecomeErrors ==
    [][ /\ (agent \in {"scholarships", "prep"} /\ pc = "raised") =>
              /\ pc' = "done" /\ node' = node
              /\ IsStr(state'.error)
              /\ Head(state'.error.s) =
                    (IF agent = "scholarships" THEN "Scholarship agent failed: "
                     ELSE "Scholarship Prep agent failed: ")
              /\ IsHeadOf(Tail(state'.error.s), turn.exc, 160)
        /\ (agent = "prep" /\ pc = "call" /\ turn'.calls = 1
              /\ turn'.oracle.action = "raises") =>
              /\ pc' = "returned"
              /\ turn'.response.action = "CLARIFY"
              /\ turn'.response.question = Null
              /\ Head(turn'.response.note_to_user.s) = "Error generating suggestions: "
              /\ IsHeadOf(Tail(turn'.response.note_to_user.s), turn'.oracle.text, 100)
      ]_vars

\* scholarships_node has returned the error made of an exception text of
\* more than 160 characters.
C10_Witness ==
    /\ node = "scholarships" /\ pc = "done"
    /\ IsStr(state.error)
    /\ Head(state.error.s) = "Scholarship agent failed: "
    /\ Len(state.error.s) = 161

-----------------------------------------------------------------------------
(* Gates at the start of a turn                                            *)

\* C11: a turn of the intake or of the scholarships agent whose input
\* profile records us_only as false makes no oracle call, applies no pending
\* answer, and returns END_NOT_US with an empty patch and a profile equal to
\* the input profile.
C11_NotUsShortCircuits ==
    (/\ agent \in {"intake", "scholarships"}
     /\ pc \in {"forced", "returned", "raised"}
     /\ _get_by_path(profile_in, <<"us_only">>) = Bool(FALSE)) =>
        /\ pc = "returned"
        /\ turn.calls = 0
        /\ turn.user_ops = <<>>
        /\ turn.response.action = "END_NOT_US"
        /\ turn.response.profile_patch = <<>>
        /\ heap[updated_profile] = profile_in

\* The pending answer of the turn in progress as the one op that stores it:
\* none when there is no question id or the answer is missing or blank.
PendingAnswerOps ==
    IF /\ IsStr(last_question_id) /\ last_question_id.s # <<>>
       /\ IsStr(last_user_answer) /\ Strip(last_user_answer.s) # <<>>
    THEN LET a == Strip(last_user_answer.s)
         IN  <<Op(last_question_id.s, IF IsDigit(a) THEN FloatOf(a) ELSE Str(a))>>
    ELSE <<>>

\* The turn would call the oracle if a key were set: the student is not
\* recorded as non-US (scholarships) and no deterministic question is left
\* once the pending answer is in the profile.
WouldDelegate ==
    LET p == apply_patch_ops(profile_in, PendingAnswerOps)
    IN  IF agent = "scholarships"
        THEN /\ _get_by_path(profile_in, <<"us_only">>) # Bool(FALSE)
             /\ GatingPending(p) = {}
        ELSE PrepPending(p) = {}

\* C12: with no OPENAI_API_KEY a scholarships or prep session makes no oracle
\* call, and a turn that would otherwise delegate returns CLARIFY with a note
\* and no question, its profile_patch being the op of the pending answer and
\* its profile the input profile with that op applied.
C12_NoKeyNeverDelegates ==
    (~api_key /\ agent \in {"scholarships", "prep"}) =>
        /\ turn.calls = 0
        /\ (pc = "returned" /\ WouldDelegate) =>
              /\ turn.response.action = "CLARIFY"
              /\ turn.response.question = Null
              /\ IsStr(turn.response.note_to_user)
              /\ turn.response.note_to_user.s # <<>>
              /\ turn.response.profile_patch = PendingAnswerOps
              /\ heap[updated_profile] = apply_patch_ops(profile_in, PendingAnswerOps)

\* A prep turn without a key whose pending answer settled the last prep
\* question: CLARIFY, with the answer in the returned profile.
C12_Witness ==
    /\ ~api_key /\ agent = "prep" /\ pc = "returned"
    /\ WouldDelegate
    /\ PendingAnswerOps # <<>>
    /\ PrepPending(profile_in) # {}
    /\ heap[updated_profile] # profile_in

-----------------------------------------------------------------------------
(* The patch engine on lists                                               *)

\* The document as a value: what a deep copy of dst taken now would hold.
PlainDoc == Plain(objs, Dict(dst))

\* C13: applying an op list to a document a second time, right after the
\* first, leaves the document as the first application left it.
C13_SecondApplicationChangesNothing ==
    [][(pcPatch = "applied" /\ pcPatch' = "reapplied") => PlainDoc' = PlainDoc]_vars

\* The op is a mapping whose path is a string that is not blank.
TargetsAPath(op) == WellFormedOp(op) /\ Strip(op.d[<<"path">>].s) # <<>>

\* The location an op writes to: its path stripped of surrounding blanks,
\* the empty segments dropped; no segment at all when the op writes nothing.
Location(op) ==
    IF TargetsAPath(op) THEN PathParts(Strip(op.d[<<"path">>].s)) ELSE <<>>

Comparable(a, b) == IsPrefix(a, b) \/ IsPrefix(b, a)

\* C14 as stated: when two ops of the list have the same path and no later
\* op has a path that is a prefix or an extension of it, the value read at
\* that path after apply_patch_ops is the value of the later of the two.
C14_LastOpWinsAtItsPath ==
    pcPatch = "applied" =>
        \A i, j \in DOMAIN ops :
            (/\ i < j
             /\ TargetsAPath(ops[i]) /\ TargetsAPath(ops[j])
             /\ ops[i].d[<<"path">>] = ops[j].d[<<"path">>]
             /\ \A k \in (j + 1)..Len(ops) :
                    TargetsAPath(ops[k]) =>
                        ~Comparable(Split(ops[k].d[<<"path">>].s),
                                    Split(ops[j].d[<<"path">>].s)))
            => GetParts(PlainDoc, Split(ops[j].d[<<"path">>].s))
                   = DictGet(ops[j].d, <<"value">>)

\* C14 amended: when two ops of the list write to the same location (the
\* path stripped of surrounding blanks, its empty segments dropped, at least
\* one segment left) and no later op writes to a prefix or an extension of
\* it, the value read at that location after apply_patch_ops is the value of
\* the later of the two.
C14_LastOpWinsAtItsLocation ==
    pcPatch = "applied" =>
        \A i, j \in DOMAIN ops :
            (/\ i < j
             /\ Location(ops[j]) # <<>>
             /\ Location(ops[i]) = Location(ops[j])
             /\ \A k \in (j + 1)..Len(ops) :
                    Location(ops[k]) # <<>> =>
                        ~Comparable(Location(ops[k]), Location(ops[j])))
            => GetParts(PlainDoc, Location(ops[j])) = DictGet(ops[j].d, <<"value">>)

\* Two ops that spell the location a.b differently and carry different
\* values were applied, and a.b reads as the second op's value.
C14_Witness ==
    /\ pcPatch = "applied"
    /\ Len(ops) = 2
    /\ TargetsAPath(ops[1]) /\ TargetsAPath(ops[2])
    /\ ops[1].d[<<"path">>] # ops[2].d[<<"path">>]
    /\ Location(ops[1]) = <<<<"a">>, <<"b">>>>
    /\ Location(ops[2]) = <<<<"a">>, <<"b">>>>
    /\ DictGet(ops[1].d, <<"value">>) # DictGet(ops[2].d, <<"value">>)
    /\ _get_by_path(PlainDoc.d, <<"a", ".", "b">>) = DictGet(ops[2].d, <<"value">>)

\* The first i segments of a location.
Upto(parts, i) == SubSeq(parts, 1, i)

\* C15: after one op with segments s1..sn was applied, every proper prefix
\* s1..si reads as a mapping and s1..sn reads as the op's value; a prefix
\* that read as a mapping before has the keys it had, with their values,
\* next to s(i+1), and a prefix that did not read as a mapping before is a
\* mapping with the one key s(i+1).
C15_PathBuiltValueStored ==
    (pcPatch = "applied" /\ Len(ops) = 1 /\ Location(ops[1]) # <<>>) =>
        LET parts == Location(ops[1])
            n == Len(parts)
        IN  /\ GetParts(PlainDoc, parts) = DictGet(ops[1].d, <<"value">>)
            /\ \A i \in 1..(n - 1) :
                  LET old == GetParts(Dict(dst0), Upto(parts, i))
                      new == GetParts(PlainDoc, Upto(parts, i))
                  IN  /\ IsDict(new)
                      /\ IF IsDict(old)
                         THEN /\ DOMAIN new.d = DOMAIN old.d \cup {parts[i + 1]}
                              /\ \A k \in DOMAIN old.d \ {parts[i + 1]} :
                                     new.d[k] = old.d[k]
                         ELSE DOMAIN new.d = {parts[i + 1]}

\* The op a.b.a was applied to a document in which a is a mapping with
\* another key and a.b is not a mapping.
C15_Witness ==
    /\ pcPatch = "applied" /\ Len(ops) = 1
    /\ Location(ops[1]) = <<<<"a">>, <<"b">>, <<"a">>>>
    /\ IsDict(_get_by_path(dst0, <<"a">>))
    /\ _get_by_path(dst0, <<"a", ".", "a">>) = Str(<<"x">>)
    /\ ~IsDict(_get_by_path(dst0, <<"a", ".", "b">>))
    /\ _get_by_path(PlainDoc.d, <<"a", ".", "a">>) = Str(<<"x">>)
    /\ _get_by_path(PlainDoc.d, <<"a", ".", "b", ".", "a">>) = Str(<<"y">>)

\* C16: apply_patch_ops leaves the document it would leave had the entries
\* that are not mappings, whose path is not a string, or whose path is empty
\* or blank, been taken out of the list; a list of such entries only leaves
\* the document as it was.
C16_MalformedOpsSkipped ==
    pcPatch = "applied" =>
        /\ PlainDoc = Dict(apply_patch_ops(dst0, SelectSeq(ops, TargetsAPath)))
        /\ (\A i \in DOMAIN ops : ~TargetsAPath(ops[i])) => dst = dst0

\* A list of an entry that is not a mapping followed by an op that changed
\* the document.
C16_Witness ==
    /\ pcPatch = "applied" /\ Len(ops) = 2
    /\ ~IsDict(ops[1])
    /\ TargetsAPath(ops[2])
    /\ PlainDoc # Dict(dst0)

-----------------------------------------------------------------------------
(* deep_merge                                                              *)

\* b laid over a, key by key.
Overlay(a, b) == [k \in DOMAIN a \cup DOMAIN b |-> IF k \in DOMAIN b THEN b[k] ELSE a[k]]

\* C17: after deep_merge(dst, patch) the document has the keys of both; a
\* key of the patch holds the merge of the two values when both are mappings
\* (one level down: the patch's entries laid over the document's, none of
\* them being a mapping on both sides) and the patch's value otherwise; a key
\* of the document that the patch lacks holds what it held.
C17_MergeKeyByKey ==
    (pcPatch = "merged" /\ IsDict(merge_patch)) =>
        LET pm == merge_patch.d
        IN  /\ DOMAIN dst = DOMAIN dst0 \cup DOMAIN pm
            /\ \A k \in DOMAIN pm :
                  IF IsDict(pm[k]) /\ k \in DOMAIN dst0 /\ IsDict(dst0[k])
                  THEN dst[k] = Dict(Overlay(dst0[k].d, pm[k].d))
                  ELSE dst[k] = pm[k]
            /\ \A k \in DOMAIN dst0 \ DOMAIN pm : dst[k] = dst0[k]
            /\ (/\ pm = (<<"a">> :> Dict(<<"b">> :> Str(<<"x">>)))
                /\ dst0 = (<<"a">> :> Null))
                  => dst = (<<"a">> :> Dict(<<"b">> :> Str(<<"x">>)))

\* {a: {b: x}} was merged into {a: {a: x}} and gave {a: {a: x, b: x}}.
C17_Witness ==
    /\ pcPatch = "merged"
    /\ merge_patch = Dict(<<"a">> :> Dict(<<"b">> :> Str(<<"x">>)))
    /\ dst0 = (<<"a">> :> Dict(<<"a">> :> Str(<<"x">>)))
    /\ dst = (<<"a">> :> Dict((<<"a">> :> Str(<<"x">>)) @@ (<<"b">> :> Str(<<"x">>))))

-----------------------------------------------------------------------------
(* The answered predicates                                                 *)

\* The values the claim names as unanswered, taken one by one.
EmptyValues == {Null, Str(<<>>), List(<<>>), Dict(EmptyMap)}

-----------------------------------------------------------------------------
(* The slot lists of an intake turn                                        *)

\* An intake turn has computed its slot lists and called the oracle.
IntakeTurnBegun ==
    agent = "intake" /\ pc \in {"forced", "returned", "raised"} /\ turn.calls > 0

\* The path is neither answered in the turn's input profile nor in its asked
\* set.
Open(path) ==
    /\ path \notin AskedSet(profile_in)
    /\ ~_is_answered(_get_by_path(profile_in, path))

\* C19: allow_finish is false exactly when the mode is deep and a deep path
\* is neither answered nor asked, and true otherwise; in deep mode with only
\* the first deep path answered and none asked the unfilled list is the rest
\* of the order and allow_finish is false, and with every path answered the
\* list is empty and allow_finish is true.
C19_AllowFinishIffNothingLeft ==
    IntakeTurnBegun =>
        LET answeredAt(i) == _is_answered(_get_by_path(profile_in, DEEP_PATHS_ORDER[i]))
            n == Len(DEEP_PATHS_ORDER)
        IN  /\ turn.allow_finish =
                  ~(completion_mode = "deep" /\ \E i \in 1..n : Open(DEEP_PATHS_ORDER[i]))
            /\ turn.allow_finish = ~(completion_mode = "deep" /\ turn.unfilled # <<>>)
            /\ completion_mode = "core" => turn.allow_finish
            /\ (/\ completion_mode = "deep" /\ AskedSet(profile_in) = {}
                /\ answeredAt(1) /\ \A i \in 2..n : ~answeredAt(i))
                  => turn.unfilled = Tail(DEEP_PATHS_ORDER) /\ ~turn.allow_finish
            /\ (completion_mode = "deep" /\ \A i \in 1..n : answeredAt(i))
                  => turn.unfilled = <<>> /\ turn.allow_finish

\* A deep-mode turn on a profile in which every deep path is answered, after
\* a turn on a profile in which one was not: allow_finish is true.
C19_Witness ==
    /\ IntakeTurnBegun /\ completion_mode = "deep"
    /\ last_user_answer # Null
    /\ \A i \in 1..Len(DEEP_PATHS_ORDER) :
           _is_answered(_get_by_path(profile_in, DEEP_PATHS_ORDER[i]))
    /\ turn.unfilled = <<>> /\ turn.allow_finish

\* C20: in deep mode the unfilled list of a turn is DEEP_PATHS_ORDER with
\* the paths that are answered or in the asked set left out, the others in
\* the order's order; the priority list is PRIORITY_SLOTS with the answered
\* paths left out, whatever the asked set.  Both are functions of the input
\* profile, so a second computation on it gives them again.
C20_UnfilledListsAreOrderedSelections ==
    IntakeTurnBegun =>
        LET unanswered(path) == ~_is_answered(_get_by_path(profile_in, path))
        IN  /\ completion_mode = "deep"
                  => turn.unfilled = SelectSeq(DEEP_PATHS_ORDER, Open)
            /\ turn.unfilled_priority = SelectSeq(PRIORITY_SLOTS, unanswered)

\* A deep-mode turn on a profile whose first path was asked and left
\* unanswered: the path is on the priority list and not on the deep list.
C20_Witness ==
    /\ IntakeTurnBegun /\ completion_mode = "deep"
    /\ DEEP_PATHS_ORDER[1] \in AskedSet(profile_in)
    /\ ~_is_answered(_get_by_path(profile_in, DEEP_PATHS_ORDER[1]))
    /\ turn.unfilled = Tail(DEEP_PATHS_ORDER)
    /\ Len(turn.unfilled) > 0
    /\ turn.unfilled_priority = PRIORITY_SLOTS

-----------------------------------------------------------------------------
(* C21: an intake turn makes one oracle call, or two                        *)

\* C21: an intake turn ends after its first oracle call or after its second:
\* the first call leads to the return, to the raise or to the forced call; the
\* forced call is the second call and leads to the return of its own response
\* (or to the raise), whatever that response is; there is never a third call.
C21_AtMostTwoOracleCalls ==
    [][(agent = "intake" /\ pc \in {"call", "forced"}) =>
           /\ turn'.calls = (IF pc = "call" THEN 1 ELSE 2)
           /\ pc = "call" => pc' \in {"returned", "forced", "raised"}
           /\ pc = "forced" =>
                 /\ pc' \in {"returned", "raised"}
                 /\ pc' = "returned" => turn'.response.from_call = 2]_vars

\* The second response finishes again while a deep path remains, and is
\* returned.
C21_Witness ==
    /\ agent = "intake" /\ pc = "returned"
    /\ turn.calls = 2 /\ turn.response.from_call = 2
    /\ turn.response.action = "FINISH"
    /\ UnfilledDeep(heap[updated_profile]) # <<>>

-----------------------------------------------------------------------------
(* C22: the asked mark of an intake turn                                    *)

\* How many entries of the list are the value x.
Occurrences(list, x) == Cardinality({i \in DOMAIN list : list[i] = x})

\* A question id that is not blank came with an answer.
AnswerPassed ==
    /\ IsStr(last_question_id) /\ Strip(last_question_id.s) # <<>>
    /\ last_user_answer # Null

\* C22: when an intake turn has returned, _meta.asked_paths of the returned
\* profile holds the trimmed last_question_id exactly once if a non-blank id
\* was passed with an answer; with no answer the list is the one of the
\* profile passed in; and a list without duplicates stays without duplicates.
C22_AskedMarkRecorded ==
    (agent = "intake" /\ pc = "returned") =>
        LET before == AskedPathsOf(profile_in)
            after == AskedPathsOf(heap[updated_profile])
        IN  /\ AnswerPassed =>
                   Occurrences(after, Str(Strip(last_question_id.s))) = 1
            /\ last_user_answer = Null => after = before
            /\ (\A x \in SeqRange(before) : Occurrences(before, x) = 1) =>
                   (\A x \in SeqRange(after) : Occurrences(after, x) = 1)

-----------------------------------------------------------------------------
(* C23: the asked mark in the scholarships and prep turns                   *)

\* C23: when a scholarships or prep turn has returned and a non-blank
\* question id was passed to it with an answer, _meta.asked_paths of the
\* returned profile holds that id, trimmed, exactly once.
C23_AgentsRecordAskedId ==
    (agent \in {"scholarships", "prep"} /\ pc = "returned" /\ AnswerPassed) =>
        Occurrences(AskedPathsOf(heap[updated_profile]),
                    Str(Strip(last_question_id.s))) = 1

-----------------------------------------------------------------------------
(* C24: the question that depends on the opt-in                             *)

OptInPath == <<"scholarships", ".", "identity_scholarships_opt_in">>
EthnicityPath == <<"scholarships", ".", "ethnicity">>

\* Every gating question without a depends_on clause is answered in p.
IndependentAnswered(p) ==
    \A i \in DOMAIN GATING_QUESTIONS :
        GATING_QUESTIONS[i].depends_on = Null =>
            _is_set(_get_by_path(p, GATING_QUESTIONS[i].id))

\* C24: a scholarships turn asks the gating question scholarships.ethnicity
\* only when, in the profile with the pending answer applied, the opt-in is
\* exactly "Yes"; with any other opt-in the question is skipped: once the
\* questions without a clause are answered the turn goes to the oracle, the
\* ethnicity being unanswered or not.
C24_DependentQuestionGated ==
    (agent = "scholarships" /\ pc \in {"returned", "raised"}) =>
        LET opt == _get_by_path(AnsweredProfile, OptInPath)
        IN  /\ (/\ pc = "returned" /\ turn.calls = 0
                /\ turn.response.action = "ASK"
                /\ turn.response.question = Question(EthnicityPath)) => opt = Yes
            /\ (/\ opt # Yes /\ IndependentAnswered(AnsweredProfile)
                /\ api_key
                /\ _get_by_path(profile_in, <<"us_only">>) # Bool(FALSE)) =>
                    turn.calls = 1

\* The opt-in is "No", the ethnicity has no answer, and the turn has gone to
\* the oracle.
C24_Witness ==
    /\ agent = "scholarships" /\ pc = "returned" /\ turn.calls = 1
    /\ _get_by_path(AnsweredProfile, OptInPath) = Str(<<"No">>)
    /\ ~_is_set(_get_by_path(AnsweredProfile, EthnicityPath))

-----------------------------------------------------------------------------
(* C25: the cap on the candidates                                           *)

\* C25: in a scholarships turn whose oracle supplied a list of candidates,
\* every link probe is for a candidate among the first max_recommendations of
\* the list, at most max_recommendations probes are made, and the returned
\* list has at most max_recommendations entries.
C25_CappedBeforeVerification ==
    (SchAnswered /\ IsList(turn.oracle.recommendations)) =>
        LET supplied == turn.oracle.recommendations.l
        IN  /\ \A j \in DOMAIN turn.probes :
                   \E i \in DOMAIN supplied :
                       i <= max_recommendations /\ supplied[i].link = turn.probes[j]
            /\ Len(turn.probes) <= max_recommendations
            /\ Len(turn.response.recommendations.l) <= max_recommendations

\* The oracle supplied one candidate more than the cap, the first
\* max_recommendations were probed, and the link of the last one, a reachable
\* page, was not.
C25_Witness ==
    /\ SchAnswered /\ IsList(turn.oracle.recommendations)
    /\ LET supplied == turn.oracle.recommendations.l
       IN  /\ Len(supplied) = max_recommendations + 1
           /\ supplied[Len(supplied)].link = Str(<<"https://", "ok">>)
           /\ Len(turn.probes) = max_recommendations
           /\ \A j \in DOMAIN turn.probes : turn.probes[j] = Str(<<"http://", "ok">>)

-----------------------------------------------------------------------------
(* C27: _parse_date_str on the named examples, and applied twice            *)

\* C27: _parse_date_str maps 'March 3rd, 2026' and '3/3/26' to '2026-03-03',
\* takes the two-digit year YY of a slash date as 2000+YY, returns a text of
\* the form YYYY-MM-DD unchanged, and applied to its own result returns that
\* result.
C27_DeadlineRoundTrip ==
    [][LET text == cand.s
           normal == Str(<<"2026", "-", "03", "-", "03">>)
           Digits(a, n) == IsNumeral(a) /\ Numerals[a].len = n
       IN  /\ (pcPatch = "text" /\ pcPatch' = "parsed") =>
                  /\ text = <<"March", " ", "3", "rd", ",", " ", "2026">> => cand_out' = normal
                  /\ text = <<"3", "/", "3", "/", "26">> => cand_out' = normal
                  /\ (/\ Len(text) = 5 /\ text[2] = "/" /\ text[4] = "/"
                      /\ Digits(text[5], 2) /\ cand_out' # Null) =>
                         cand_out'.s[1] = Numeral(4, 2000 + Numerals[text[5]].n)
                  /\ (/\ Len(text) = 5 /\ text[2] = "-" /\ text[4] = "-"
                      /\ Digits(text[1], 4) /\ Digits(text[3], 2) /\ Digits(text[5], 2)) =>
                         cand_out' = cand
           /\ (pcPatch = "parsed" /\ pcPatch' = "reparsed") => cand_out' = cand_out]_vars

\* '3/3/26' was normalised to '2026-03-03' and normalised once more.
C27_Witness ==
    /\ pcPatch = "reparsed"
    /\ cand = Str(<<"3", "/", "3", "/", "26">>)
    /\ cand_out = Str(<<"2026", "-", "03", "-", "03">>)

-----------------------------------------------------------------------------
(* C26: where the deadline of a kept candidate comes from                   *)

\* The dates written on the page of the link: what _parse_date_str reads
\* from a stretch of the page's text.
DatesOnPage(link) ==
    LET text == _fetch_page_text(link)
    IN  {_parse_date_str(SubSeq(text, i, j)) : i \in DOMAIN text, j \in DOMAIN text}
            \ {Null}

\* C26: the deadline of a kept candidate is the supplied deadline normalised
\* when it parses, and then the page is not fetched; otherwise the page is
\* fetched once and the deadline is a date written on the page, or null when
\* the page holds none.
C26_DeadlineSuppliedOrOnPage ==
    (pcPatch = "normalised" /\ cand_out.verified # <<>>) =>
        LET dl == cand.deadline
            parsed == IF IsStr(dl) THEN _parse_date_str(dl.s) ELSE Null
            out == cand_out.verified[1].deadline
        IN  IF parsed # Null
            THEN out = parsed /\ cand_out.fetches = <<>>
            ELSE /\ cand_out.fetches = <<cand.link>>
                 /\ out \in DatesOnPage(cand.link) \cup {Null}
                 /\ out = Null <=> DatesOnPage(cand.link) = {}

-----------------------------------------------------------------------------
(* C28: what load_student_context records for each store                   *)

\* The file holds a JSON object.
HoldsObject(file) == file.t = "json" /\ IsDict(file.v)

\* C28 as stated: when load_student_context returns, its result has exactly
\* one entry per store; the entry is 'File not generated yet.' for a file
\* that is not there, 'No data found for this user.' for an object without
\* an entry for the client, and the client's entry itself for an object
\* that has one.
C28_EntryPerStoreVerbatim ==
    (pcPatch = "context" /\ cand_out.t = "returned") =>
        /\ DOMAIN cand_out.v.d = {<<key_name(f)>> : f \in StoreFiles}
        /\ Cardinality(DOMAIN cand_out.v.d) = 6
        /\ \A f \in StoreFiles :
               LET file == cand[f]
                   recorded == cand_out.v.d[<<key_name(f)>>]
               IN  /\ file = FileMissing =>
                          recorded = Str(<<"File not generated yet.">>)
                   /\ (HoldsObject(file) /\ ClientId \notin DOMAIN file.v.d) =>
                          recorded = Str(<<"No data found for this user.">>)
                   /\ (HoldsObject(file) /\ ClientId \in DOMAIN file.v.d) =>
                          recorded = file.v.d[ClientId]

\* C28, amended: an entry of the client that is empty (falsy) is recorded as
\* 'No data found for this user.' as well; an entry that is not empty is
\* recorded as it is.
C28_EntryPerStoreVerbatimUnlessEmpty ==
    (pcPatch = "context" /\ cand_out.t = "returned") =>
        /\ DOMAIN cand_out.v.d = {<<key_name(f)>> : f \in StoreFiles}
        /\ Cardinality(DOMAIN cand_out.v.d) = 6
        /\ \A f \in StoreFiles :
               LET file == cand[f]
                   recorded == cand_out.v.d[<<key_name(f)>>]
                   filled == ClientId \in DOMAIN file.v.d /\ Truthy(file.v.d[ClientId])
               IN  /\ file = FileMissing =>
                          recorded = Str(<<"File not generated yet.">>)
                   /\ (HoldsObject(file) /\ ~filled) =>
                          recorded = Str(<<"No data found for this user.">>)
                   /\ (HoldsObject(file) /\ filled) =>
                          recorded = file.v.d[ClientId]

\* A call that returned on a directory with a file that is not there, a file
\* without the client, a file with the client's document, recorded as it
\* is, and a file where the client's entry is {}, recorded as no data.
C28_Witness ==
    /\ pcPatch = "context" /\ cand_out.t = "returned"
    /\ cand["intake_profiles.json"] =
           FileHolding(Dict((ClientId :> StoredDoc) @@ (OtherId :> StoredDoc)))
    /\ cand_out.v.d[<<"intake_profiles">>] = StoredDoc
    /\ cand["advisor_results.json"] = FileHolding(Dict(OtherId :> StoredDoc))
    /\ cand_out.v.d[<<"advisor_results">>] = Str(<<"No data found for this user.">>)
    /\ cand["cv_review_results.json"] = FileMissing
    /\ cand_out.v.d[<<"cv_review_results">>] = Str(<<"File not generated yet.">>)
    /\ cand["scholarships_profiles.json"] = FileHolding(Dict(ClientId :> Dict(EmptyMap)))
    /\ cand_out.v.d[<<"scholarships_profiles">>] = Str(<<"No data found for this user.">>)

-----------------------------------------------------------------------------
(* C29: load_student_context on files of any content                       *)

\* C29: load_student_context returns whatever the files hold; a file that
\* json.load rejects is recorded as 'Error reading file.', and the entries of
\* the other stores are what they are when that file holds an empty object.
C29_ContextNeverRaises ==
    pcPatch = "context" =>
        /\ cand_out.t = "returned"
        /\ \A f \in StoreFiles :
               cand[f] = FileMalformed =>
                   /\ cand_out.v.d[<<key_name(f)>>] = Str(<<"Error reading file.">>)
                   /\ LET mended == [cand EXCEPT ![f] = FileHolding(Dict(EmptyMap))]
                          healthy == load_student_context(mended, ClientId)
                      IN  \A g \in StoreFiles \ {f} :
                              cand_out.v.d[<<key_name(g)>>] = healthy.v.d[<<key_name(g)>>]

-----------------------------------------------------------------------------
(* C30: the readers of a store on a file that is missing or malformed      *)

\* C30: each of the six calls that read a store returns when the file is not
\* there and when json.load rejects it; _load_from_disk then returns None.
C30_ReadsNeverCrash ==
    (pcPatch = "read" /\ cand \in {FileMissing, FileMalformed}) =>
        /\ cand_out.out.t = "returned"
        /\ cand_out.op = "_load_from_disk" => cand_out.out.v = Null

-----------------------------------------------------------------------------
(* C31: an unparseable oracle response of an intake turn                   *)

\* next_turn raised on a response that is not the JSON of an object.
IntakeParseFailed == agent = "intake" /\ pc = "raised" /\ turn.oracle # Null

EndsWith(text, tail) ==
    /\ Len(tail) <= Len(text)
    /\ SubSeq(text, Len(text) - Len(tail) + 1, Len(text)) = tail

\* The parts of C31 about the calls and the caller's profile: the failing
\* call is the last one of the turn, and the caller's profile is as passed.
IntakeParseFailureIsHard ==
    IntakeParseFailed =>
        /\ turn.calls = (IF turn.first = "" THEN 1 ELSE 2)
        /\ heap[1] = profile_in

\* C31: when the first or the forced response of an intake turn is not
\* parseable as the required JSON object, next_turn raises an error whose
\* text carries the raw response cut to a snippet, calls the oracle no more,
\* and leaves the caller's profile unchanged.
C31_UnparseableRaisesWithSnippet ==
    IntakeParseFailed =>
        /\ EndsWith(turn.exc.text, Snippet(turn.oracle.raw))
        /\ Len(Snippet(turn.oracle.raw)) <= SnippetChars
        /\ IntakeParseFailureIsHard

-----------------------------------------------------------------------------
(* C32: question and payload of a returned turn                            *)

\* A turn of the scholarships or of the prep agent has returned.
SchOrPrepReturned == agent \in {"scholarships", "prep"} /\ pc = "returned"

\* The payload of a Turn Result: recommendations or suggestions.
Payload(response) ==
    IF agent = "scholarships" THEN response.recommendations ELSE response.suggestions

Populated(v) == v # Null /\ v # List(<<>>)

\* The turns the agents build themselves (no oracle call, or no object parsed
\* from it) carry the question under ASK and nothing otherwise.
BuiltTurnsCarryQuestionOnly ==
    (SchOrPrepReturned /\ (turn.calls = 0 \/ turn.oracle.action \in {"raises", "none"})) =>
        /\ ~Populated(Payload(turn.response))
        /\ Populated(turn.response.question) <=> turn.response.action = "ASK"

\* C32: in every Turn Result the scholarships and the prep agent return,
\* exactly one of question and payload is populated: the question under ASK,
\* the payload under RECOMMEND and SUGGEST.
C32_ExactlyOneOfQuestionAndPayload ==
    SchOrPrepReturned =>
        LET r == turn.response
        IN  /\ Populated(r.question) # Populated(Payload(r))
            /\ r.action = "ASK" => Populated(r.question)
            /\ r.action \in {"RECOMMEND", "SUGGEST"} => Populated(Payload(r))

-----------------------------------------------------------------------------
(* C33: the intake questioning ends within the deep path order             *)

\* The weaker statement without the bound: the questioning does not go on
\* for ever, it reaches a returned profile with no unfilled deep path or the
\* end of the node.  Under SpecQuestioningFair it is violated as well: an
\* oracle patch on _meta.asked_paths erases the asked marks turn after turn.
QuestioningReachesNoUnfilled ==
    <>(pc = "done" \/ (pc = "returned" /\ UnfilledDeep(heap[updated_profile]) = <<>>))

\* C33: in deep mode, with a caller that passes each returned profile on and
\* answers every question, and an oracle that asks the path it is directed
\* to, a turn that was passed the |DEEP_PATHS_ORDER|-th answer or a later one
\* returns a profile with no unfilled deep path, whatever the answers are.
C33_QuestioningEndsWithinOrder ==
    (agent = "intake" /\ pc = "returned" /\ loop_i >= Len(DEEP_PATHS_ORDER)) =>
        UnfilledDeep(heap[updated_profile]) = <<>>

-----------------------------------------------------------------------------
(* C34: saves of two clients to one store file                             *)

\* A client has made its saves, or its save ended with an exception.
SavesOver(c) ==
    \/ cand_out[c].pc = "raised"
    \/ cand_out[c].pc = "idle" /\ cand_out[c].saves = MaxSaves

\* The second part of C34 as a property of every step: the json.dump of one
\* client's save leaves the other client's entry as that client last wrote it.
SaveKeepsOtherEntries ==
    [][\A c \in Clients :
          (pcPatch = "saves" /\ cand_out[c].pc = "opened" /\ cand_out'[c].pc = "idle") =>
              \A o \in Clients \ {c} : EntryIn(cand', o) = cand_out[o].latest]_vars

\* C34: with one turn at a time per client, no update is lost: when the saves
\* of two different clients to the same store file interleave, then after both
\* are over the file holds, for each client, the entry its latest save wrote.
C34_NoUpdateLost ==
    (pcPatch = "saves" /\ \A c \in Clients : SavesOver(c)) =>
        \A c \in Clients : EntryIn(cand, c) = cand_out[c].latest

-----------------------------------------------------------------------------
(* C35: the returned patch as the record of the turn's mutation            *)

\* The returned profile_patch applied, in order, to the profile passed in.
PatchOnProfileIn == apply_patch_ops(profile_in, turn.response.profile_patch)

\* What holds of the scholarships agent: its patch reproduces its profile.
SchPatchIsCompleteRecord ==
    (agent = "scholarships" /\ pc = "returned") =>
        PatchOnProfileIn = heap[updated_profile]

\* C35: for every turn of the scholarships and of the prep agent, applying
\* the returned profile_patch in order to the profile that was passed in
\* yields exactly the returned updated profile.
C35_PatchIsCompleteRecord ==
    SchOrPrepReturned => PatchOnProfileIn = heap[updated_profile]

-----------------------------------------------------------------------------
(* C36: the patch an intake turn returns and the profile it returns        *)

\* A profile without the asked_paths of its _meta.
WithoutAskedPaths(p) ==
    LET m == DictGet(p, <<"_meta">>)
    IN  IF IsDict(m)
        THEN [p EXCEPT ![<<"_meta">>] =
                 Dict([k \in DOMAIN m.d \ {<<"asked_paths">>} |-> m.d[k]])]
        ELSE p

IntakeReturned == agent = "intake" /\ pc = "returned"

\* What the caller holds when it persists only the returned patch, and what
\* the turn returned, asked_paths aside.
IntakePatchCarriesProfile ==
    WithoutAskedPaths(apply_patch_ops(profile_in, turn.response.profile_patch))
        = WithoutAskedPaths(heap[updated_profile])

\* What holds of the turns that made one oracle call.
SingleCallPatchCarriesProfile ==
    (IntakeReturned /\ turn.calls = 1) => IntakePatchCarriesProfile

\* C36: for every intake turn, a forced-continuation turn included, every
\* field in which the returned profile differs from the profile passed in,
\* _meta.asked_paths aside, is set by the returned profile_patch: the patch
\* applied to the profile passed in gives the field values of the returned
\* profile.
C36_NoFieldLostToCaller ==
    IntakeReturned => IntakePatchCarriesProfile


-----------------------------------------------------------------------------
(* C37: combining the intake profile with the stored scholarship profile   *)

\* The fields of the intake profile, as the paths the agents read them at.
IntakeFieldPaths ==
    {<<"us_only">>, <<"residency_status">>,
     <<"sat", ".", "status">>, <<"sat", ".", "math">>}

\* No stored op wrote at, above or below the field.
NoStoredOpWrote(field) ==
    \A i \in 1..Len(ops) :
        Incomparable(Split(field), Split(DictGet(ops[i].d, <<"path">>).s))

\* No stored op wrote anywhere under the field's top-level key.
NoStoredOpUnderKey(field) ==
    \A i \in 1..Len(ops) :
        Head(Split(DictGet(ops[i].d, <<"path">>).s)) # Head(Split(field))

\* What the merge does keep: an intake field whose top-level key no stored
\* op wrote under has its intake value in the merged profile.
MergeKeepsUntouchedKeys ==
    pcPatch = "combined"
        => \A field \in IntakeFieldPaths :
               NoStoredOpUnderKey(field)
                   => _get_by_path(dst, field) = _get_by_path(dst0, field)

\* C37 as stated: every intake field at a path that no stored scholarship
\* patch wrote keeps its intake value in the merged profile, siblings inside
\* a namespace that the sub-profile also contains included.
C37_MergeKeepsUnwrittenFields ==
    pcPatch = "combined"
        => \A field \in IntakeFieldPaths :
               NoStoredOpWrote(field)
                   => _get_by_path(dst, field) = _get_by_path(dst0, field)


-----------------------------------------------------------------------------
(* C38: an answered gating or prep question                                *)

\* A scholarships or prep turn has returned a question of its list (the
\* oracle was not called) after the caller passed back the answer to the
\* question asked before.
AnsweredTurnAsks ==
    /\ agent \in {"scholarships", "prep"} /\ pc = "returned"
    /\ last_question_id # Null /\ last_user_answer # Null
    /\ turn.calls = 0
    /\ turn.response.action = "ASK"

\* What the agents do guarantee: an answer that is not blank settles its
\* question, the next question of the list is another one.
NonBlankAnswerSettlesQuestion ==
    (AnsweredTurnAsks /\ Strip(last_user_answer.s) # <<>>)
        => turn.response.question.id # last_question_id

\* C38 as stated: whatever the answer text is, the question just answered is
\* not asked again.
C38_AnsweredQuestionNotAskedAgain ==
    AnsweredTurnAsks => turn.response.question.id # last_question_id


-----------------------------------------------------------------------------
(* C39: the loops of scholarships_node and scholarship_prep_node           *)

\* A step in which the scholarships or the prep node returns to the graph.
NodeLoopEnds == agent \in {"scholarships", "prep"} /\ pc' = "done"

\* The node returns on the turn the agent handed back: an action other than
\* ASK, or an ASK without a question text.
EndsOnTurn ==
    /\ pc = "returned"
    /\ \/ turn.response.action # "ASK"
       \/ turn.response.question = Null
       \/ turn.response.question.text.s = <<>>

\* The node returns after its 12th ASK turn with the error of the exhausted
\* loop.
EndsOnTwelfthAsk ==
    /\ pc = "returned" /\ turn.response.action = "ASK" /\ loop_i = 12
    /\ state'.error = IF agent = "scholarships"
                      THEN Msg("Scholarships: too many turns without completion.", <<>>)
                      ELSE Msg("Prep: too many turns without completion.", <<>>)

\* The node returns from its except clause: the constructor or next_turn
\* raised.
EndsInExcept ==
    /\ pc = "raised"
    /\ state'.error = IF agent = "scholarships"
                      THEN Msg("Scholarship agent failed: ", Truncate(turn.exc, NodeErrorChars))
                      ELSE Msg("Scholarship Prep agent failed: ", Truncate(turn.exc, NodeErrorChars))

\* The agent is called at most 12 times in a node execution: loop_i is the
\* number of the call under way.
AtMostTwelveCalls == agent \in {"scholarships", "prep"} => loop_i' <= 12

\* How far a node execution has got: twice the number of the call, and one
\* more once the call is over.
NodeProgress == 2 * loop_i + (IF pc = "call" THEN 0 ELSE 1)

\* Every step inside a node execution gets further: with the bound on the
\* calls, the node ends.
NodeAdvances ==
    (agent \in {"scholarships", "prep"} /\ agent' = agent)
        => NodeProgress' > NodeProgress

\* C39 as stated: at most 12 calls, the node ends, and it ends on a terminal turn or,
\* after 12 ASK turns, with the error of the exhausted loop.
C39_EndsOnTurnOrTwelfthAsk ==
    [][/\ AtMostTwelveCalls /\ NodeAdvances
       /\ NodeLoopEnds => EndsOnTurn \/ EndsOnTwelfthAsk]_vars

\* C39, amended: at most 12 calls, the node ends, and it ends on a terminal turn,
\* after 12 ASK turns with the error of the exhausted loop, or in its except
\* clause with the error that carries the exception's text.
C39_EndsOnTurnTwelfthAskOrExcept ==
    [][/\ AtMostTwelveCalls /\ NodeAdvances
       /\ NodeLoopEnds => EndsOnTurn \/ EndsOnTwelfthAsk \/ EndsInExcept]_vars

\* A node has returned after 12 ASK turns.
C39_Witness ==
    /\ pc = "done"
    /\ state.error \in {Msg("Scholarships: too many turns without completion.", <<>>),
                        Msg("Prep: too many turns without completion.", <<>>)}


-----------------------------------------------------------------------------
(* C40: the stored intake profile and the route through the graph          *)

\* The client's entry of intake_profiles.json.
StoredProfile == disk["intake_profiles.json"]

\* The errors intake_form_node returns when its loop ends without FINISH.
UnfinishedIntakeErrors ==
    {Msg("Intake ended: Student not eligible (US only).", <<>>),
     Msg("Intake error: missing question.", <<>>),
     Msg("User cancelled intake process.", <<>>)}

\* The entry is written by intake_form_node on a FINISH turn, with the
\* profile of that turn, and later in the same invocation by the prep node,
\* which patches the profile intake left in the state.
StoredOnFinishOnly ==
    StoredProfile' # StoredProfile =>
        \/ /\ agent = "intake" /\ pc = "returned"
           /\ turn.response.action = "FINISH"
           /\ StoredProfile' = Dict(heap[updated_profile])
        \/ /\ agent = "prep" /\ pc = "returned"
           /\ state.next_node = Str(<<"intake_form">>)
           /\ IsDict(state.profile)
           /\ StoredProfile' = state'.profile

\* The step out of the entry node goes to general chat when a non-empty
\* profile is stored for the client, and to intake when none is.
RoutedOnStoredProfile ==
    (node = "entry" /\ node' # node) =>
        node' = IF IsDict(StoredProfile) /\ StoredProfile.d # EmptyMap
                THEN "general_chat" ELSE "intake_form"

\* After the entry node the nodes follow one another in the fixed order; a
\* node that raises ends the invocation.
PipelineOrder ==
    <<"intake_form", "advisor", "cv_review", "scholarships", "scholarship_prep",
      "general_chat", "END">>

InFixedOrder ==
    (node # "entry" /\ node' # node) =>
        \/ node' = "crashed"
        \/ \E i \in 1..(Len(PipelineOrder) - 1) :
               node = PipelineOrder[i] /\ node' = PipelineOrder[i + 1]

NoEntryAfterUnfinishedIntake ==
    state.error \in UnfinishedIntakeErrors =>
        ~(IsDict(StoredProfile) /\ StoredProfile.d # EmptyMap)

====
